---------------------------- MODULE Spec2Model ----------------------------
(***************************************************************************)
(* Meeting-analysis pipeline of ALSA-meeting-transcriber.                  *)
(*                                                                         *)
(*   core/summarization_service.py  OllamaSummarizer: the LLM-backed       *)
(*       summarizer (guard, chunking, endpoint fallback, JSON parsing,     *)
(*       extractive fallback).                     specification Spec      *)
(*   core/summarization_service.py  _chunk_text as a function of its       *)
(*       input.                                    specification SpecChunk *)
(*   core/summarizer.py  build_smart_summary: the rule-based analyzer.     *)
(*                                                 specification SpecSmart *)
(*   core/summarization_service.py  OllamaSummarizer.__init__: the base    *)
(*       URL and the request URLs.                 specification SpecUrl   *)
(*   core/transcription_service.py, ui/main_window.py  start_job behind    *)
(*       its queued connection.                    specification SpecJobs  *)
(*   core/recording_service.py  RecordingService.  specification SpecRec   *)
(*                                                                         *)
(* Strings of the orchestrator are sequences of pieces: a run of n         *)
(* ordinary characters, one sentence punctuation character, a run of       *)
(* newlines, a run of blanks.  Lengths are exact, so len(), strip(),       *)
(* slicing and the regular-expression splits are computed, not assumed.    *)
(***************************************************************************)
EXTENDS Integers, Sequences, FiniteSets, TLC

VARIABLES
    \* ---- OllamaSummarizer.summarize_structured (one call) ----
    transcript_text,   \* the argument: [none |-> BOOLEAN, s |-> string]
    pc,                \* "idle" | "chat" | "generate" | "ret" | "done" | "raised"
    chunks,            \* the list _chunk_text returned (<<>> on the single path)
    chunked,           \* TRUE iff the len(text) > max_chars branch was taken
    idx,               \* the chunk being summarized; 0: the _summarize_structured_once call
    chunk_summaries,   \* the list built by the for loop
    prompt,            \* the prompt of the logical call in progress
    calls,             \* prompts of the logical _ollama_call calls started, in order
    chat_status,       \* outcome of this logical call's /api/chat POST ("none" before it)
    gen_status,        \* outcome of this logical call's /api/generate POST
    chat_posts,        \* POSTs to /api/chat in this logical call
    gen_posts,         \* POSTs to /api/generate in this logical call
    http_posts,        \* POSTs of the whole summarize_structured call
    reply,             \* the last 2xx reply's text and the endpoint that sent it
    out,               \* what _ollama_call returned: [some |-> BOOLEAN, s |-> response]
    result,            \* the SummaryResult returned (some = FALSE: none)
    exc,               \* the exception that left summarize_structured ("none")
    \* ---- _chunk_text as a function ----
    ck_text,           \* its text argument
    ck_parts,          \* its return value
    ck_done,           \* whether it has been applied
    \* ---- build_smart_summary ----
    sm_text,           \* the transcript under study (a sequence of lines)
    sm_arg,            \* the argument of the latest call: [some, lines]
    sm_out,            \* the SmartSummary the latest call returned
    sm_scored,         \* its local list `scored`: (score, sentence) pairs
    sm_first,          \* what the first call on sm_text returned
    sm_between,        \* whether another transcript was analysed since then
    tables,            \* the module-level keyword, hint and stopword tables
    \* ---- OllamaSummarizer.__init__ and the request URLs ----
    url_arg,           \* the base_url argument of the constructor
    url_pc,            \* "new" before the constructor ran, "ready" after
    base_url,          \* self.base_url
    url_prev,          \* self.base_url of the summarizer this one was built from
    url_sent,          \* the URLs requests were posted to
    \* ---- TranscriptionService and the event queue of its thread ----
    ts_busy,           \* self._busy
    ts_pc,             \* where start_job stands ("idle": it is not running)
    ts_job,            \* the request whose job is executing (0: none)
    ts_events,         \* queued calls of start_job, oldest first (request numbers)
    ts_requests,       \* the requests emitted: [origin, busy], busy = _busy at the emit
    ts_emitted,        \* the signals of the job accepted last, in order
    ts_ignored,        \* the requests answered with "Busy: job ignored."
    ts_jobs,           \* the requests a job was executed for, in order
    \* ---- RecordingService ----
    rec_stream,        \* self._stream (0: None)
    rec_running,       \* whether that stream was started
    rec_frames,        \* len(self._frames)
    rec_paused,        \* self._paused
    rec_opened,        \* the InputStreams created so far
    rec_emitted,       \* the signals of the latest operation
    rec_last           \* the latest operation and what it found

llm_vars == <<transcript_text, pc, chunks, chunked, idx, chunk_summaries, prompt,
              calls, chat_status, gen_status, chat_posts, gen_posts, http_posts,
              reply, out, result, exc>>
ck_vars == <<ck_text, ck_parts, ck_done>>
sm_vars == <<sm_text, sm_arg, sm_out, sm_scored, sm_first, sm_between, tables>>
url_vars == <<url_arg, url_pc, base_url, url_prev, url_sent>>
ts_vars == <<ts_busy, ts_pc, ts_job, ts_events, ts_requests, ts_emitted, ts_ignored, ts_jobs>>
rec_vars == <<rec_stream, rec_running, rec_frames, rec_paused, rec_opened, rec_emitted, rec_last>>
aux_vars == <<url_vars, ts_vars, rec_vars>>
vars == <<llm_vars, ck_vars, sm_vars, aux_vars>>

----------------------------------------------------------------------------
(* Strings as piece sequences *)

W(n) == [k |-> "w", n |-> n, c |-> "a"]
Lit(c) == [k |-> "w", n |-> 1, c |-> c]
P == [k |-> "p", n |-> 1, c |-> "."]
NL(n) == [k |-> "nl", n |-> n, c |-> ""]
SP(n) == [k |-> "sp", n |-> n, c |-> ""]

IsSpace(p) == p.k \in {"nl", "sp"}

RECURSIVE StrLen(_)
StrLen(s) == IF s = <<>> THEN 0 ELSE Head(s).n + StrLen(Tail(s))

RECURSIVE LStrip(_)
LStrip(s) == IF s # <<>> /\ IsSpace(Head(s)) THEN LStrip(Tail(s)) ELSE s

RECURSIVE RStrip(_)
RStrip(s) ==
    IF s # <<>> /\ IsSpace(s[Len(s)]) THEN RStrip(SubSeq(s, 1, Len(s) - 1)) ELSE s

Strip(s) == RStrip(LStrip(s))

\* s[:n]
RECURSIVE Prefix(_, _)
Prefix(s, n) ==
    IF s = <<>> \/ n <= 0 THEN <<>>
    ELSE IF Head(s).n <= n THEN <<Head(s)>> \o Prefix(Tail(s), n - Head(s).n)
    ELSE <<[Head(s) EXCEPT !.n = n]>>

\* sep.join(list)
RECURSIVE Join(_, _)
Join(sep, list) ==
    IF list = <<>> THEN <<>>
    ELSE IF Len(list) = 1 THEN list[1]
    ELSE list[1] \o sep \o Join(sep, Tail(list))

RECURSIVE SelectNonEmpty(_)
SelectNonEmpty(list) ==
    IF list = <<>> THEN <<>>
    ELSE IF Head(list) = <<>> THEN SelectNonEmpty(Tail(list))
    ELSE <<Head(list)>> \o SelectNonEmpty(Tail(list))

----------------------------------------------------------------------------
(* _chunk_text *)

MAX_CHARS == 12000
CHUNK_SIZE == 6000
MAX_CHUNKS == 6

\* re.split(r"(\n+|[.!؟\?])", text), then the loop's two `continue`s: the
\* pieces between delimiters stripped and kept when non-empty, each
\* punctuation character a token of its own, newline runs dropped.
RECURSIVE SplitTokens(_, _)
SplitTokens(s, run) ==
    LET close == IF Strip(run) = <<>> THEN <<>> ELSE <<Strip(run)>> IN
    IF s = <<>> THEN close
    ELSE IF Head(s).k = "p" THEN close \o <<<<Head(s)>>>> \o SplitTokens(Tail(s), <<>>)
    ELSE IF Head(s).k = "nl" THEN close \o SplitTokens(Tail(s), <<>>)
    ELSE SplitTokens(Tail(s), Append(run, Head(s)))

chunk_tokens(text) == SplitTokens(text, <<>>)

\* flush(): only a non-empty buffer is appended (and only then reset).
flush(st) ==
    IF st.buf # <<>>
    THEN [st EXCEPT !.parts = Append(st.parts, Strip(Join(<<SP(1)>>, st.buf))),
                    !.buf = <<>>, !.size = 0]
    ELSE st

\* The loop body with the token that closes a chunk left out of the next one
\* (a `continue` after flush()).
chunk_stepLosesToken(st, t, chunk_size, max_chunks) ==
    IF st.stop THEN st
    ELSE IF st.size + StrLen(t) + 1 > chunk_size
    THEN LET f == flush(st) IN
         IF Len(f.parts) >= max_chunks THEN [f EXCEPT !.stop = TRUE]
         ELSE IF st.buf = <<>>
         THEN [f EXCEPT !.buf = Append(f.buf, t), !.size = f.size + StrLen(t) + 1]
         ELSE f
    ELSE [st EXCEPT !.buf = Append(st.buf, t), !.size = st.size + StrLen(t) + 1]

\* One iteration of the for loop over the tokens, `break` as the stop flag.
chunk_step(st, t, chunk_size, max_chunks) ==
    IF st.stop THEN st
    ELSE IF st.size + StrLen(t) + 1 > chunk_size
    THEN LET f == flush(st) IN
         IF Len(f.parts) >= max_chunks THEN [f EXCEPT !.stop = TRUE]
         ELSE [f EXCEPT !.buf = Append(f.buf, t), !.size = f.size + StrLen(t) + 1]
    ELSE [st EXCEPT !.buf = Append(st.buf, t), !.size = st.size + StrLen(t) + 1]

RECURSIVE chunk_loop(_, _, _, _)
chunk_loop(st, toks, chunk_size, max_chunks) ==
    IF toks = <<>> THEN st
    ELSE chunk_loop(chunk_step(st, Head(toks), chunk_size, max_chunks),
                    Tail(toks), chunk_size, max_chunks)

_chunk_text(text, chunk_size, max_chunks) ==
    LET st0 == [parts |-> <<>>, buf |-> <<>>, size |-> 0, stop |-> FALSE]
        st1 == chunk_loop(st0, chunk_tokens(text), chunk_size, max_chunks)
        st2 == IF Len(st1.parts) < max_chunks THEN flush(st1) ELSE st1
    IN SelectNonEmpty(st2.parts)

----------------------------------------------------------------------------
(* _fallback_summary *)

\* re.split(r"(?<=[.!؟\?])\s+", text): cut at each whitespace run that
\* follows a punctuation character; the run itself is removed.
RECURSIVE SplitAfterPunct(_, _)
SplitAfterPunct(s, cur) ==
    IF s = <<>> THEN <<cur>>
    ELSE IF IsSpace(Head(s)) /\ cur # <<>> /\ cur[Len(cur)].k = "p"
    THEN <<cur>> \o SplitAfterPunct(LStrip(s), <<>>)
    ELSE SplitAfterPunct(Tail(s), Append(cur, Head(s)))

RECURSIVE StripEach(_)
StripEach(list) ==
    IF list = <<>> THEN <<>> ELSE <<Strip(Head(list))>> \o StripEach(Tail(list))

FirstN(list, n) == SubSeq(list, 1, IF Len(list) < n THEN Len(list) ELSE n)

_fallback_summaryAllSentences(text) ==
    LET sents == SelectNonEmpty(StripEach(SplitAfterPunct(Strip(text), <<>>)))
    IN Prefix(Join(<<SP(1)>>, sents), 1200)

_fallback_summary(text) ==
    LET sents == SelectNonEmpty(StripEach(SplitAfterPunct(Strip(text), <<>>)))
    IN Prefix(Join(<<SP(1)>>, FirstN(sents, 5)), 1200)

----------------------------------------------------------------------------
(* The endpoint's response text and json.loads                               *)
(*                                                                           *)
(* A response is a sequence of lexical items: the four brackets, a run of    *)
(* prose that is no JSON ("prose"), the scalars 7 ("num") and null, and      *)
(* object members written whole: "summary":"x" (sumS), "summary":7 (sumN),   *)
(* "summary":"  " (sumB), "topics":["a"] (topA).  Commas are implied.        *)

JNull == [t |-> "null"]
JNum == [t |-> "num"]
JStr(s) == [t |-> "str", s |-> s]
JList(items) == [t |-> "list", items |-> items]
JDict(n, summary, topics) == [t |-> "dict", n |-> n, summary |-> summary, topics |-> topics]


NoParse == [ok |-> FALSE, v |-> JNull, next |-> 0]

RECURSIVE ParseValue(_, _)
RECURSIVE ParseElems(_, _, _)
RECURSIVE ParseMembers(_, _, _)

ParseValue(toks, i) ==
    IF i > Len(toks) THEN NoParse
    ELSE IF toks[i] = "num" THEN [ok |-> TRUE, v |-> JNum, next |-> i + 1]
    ELSE IF toks[i] = "null" THEN [ok |-> TRUE, v |-> JNull, next |-> i + 1]
    ELSE IF toks[i] = "[" THEN ParseElems(toks, i + 1, <<>>)
    ELSE IF toks[i] = "{" THEN ParseMembers(toks, i + 1, JDict(0, JNull, JNull))
    ELSE NoParse

ParseElems(toks, i, acc) ==
    IF i > Len(toks) THEN NoParse
    ELSE IF toks[i] = "]" THEN [ok |-> TRUE, v |-> JList(acc), next |-> i + 1]
    ELSE LET e == ParseValue(toks, i) IN
         IF e.ok THEN ParseElems(toks, e.next, Append(acc, e.v)) ELSE NoParse

\* A repeated key keeps its last value, as in a Python dict.
ParseMembers(toks, i, acc) ==
    IF i > Len(toks) THEN NoParse
    ELSE IF toks[i] = "}" THEN [ok |-> TRUE, v |-> acc, next |-> i + 1]
    ELSE IF toks[i] = "sumS"
    THEN ParseMembers(toks, i + 1, [acc EXCEPT !.n = @ + 1, !.summary = JStr(<<Lit("x")>>)])
    ELSE IF toks[i] = "sumN"
    THEN ParseMembers(toks, i + 1, [acc EXCEPT !.n = @ + 1, !.summary = JNum])
    ELSE IF toks[i] = "sumB"
    THEN ParseMembers(toks, i + 1, [acc EXCEPT !.n = @ + 1, !.summary = JStr(<<SP(2)>>)])
    ELSE IF toks[i] = "sumL"
    THEN ParseMembers(toks, i + 1, [acc EXCEPT !.n = @ + 1, !.summary = JStr(<<W(7000)>>)])
    ELSE IF toks[i] = "topA"
    THEN ParseMembers(toks, i + 1,
                      [acc EXCEPT !.n = @ + 1, !.topics = JList(<<JStr(<<Lit("a")>>)>>)])
    ELSE NoParse

\* json.loads(s): [ok |-> FALSE] stands for the exception it raises.
json_loads(toks) ==
    LET r == ParseValue(toks, 1) IN
    IF r.ok /\ r.next = Len(toks) + 1 THEN [ok |-> TRUE, v |-> r.v]
    ELSE [ok |-> FALSE, v |-> JNull]

\* Python truth value of a decoded JSON value.
Truthy(v) ==
    CASE v.t = "null" -> FALSE
      [] v.t = "num" -> TRUE
      [] v.t = "str" -> v.s # <<>>
      [] v.t = "list" -> v.items # <<>>
      [] v.t = "dict" -> v.n > 0

\* re.match in place of re.search: the pattern is tried at the start of the
\* text only.
BraceMatchAtStart(toks) ==
    LET closes == {i \in 1..Len(toks) : toks[i] = "}"}
        last == CHOOSE i \in closes : \A j \in closes : j <= i
    IN IF toks = <<>> \/ toks[1] # "{" \/ closes = {}
       THEN [found |-> FALSE, blob |-> <<>>]
       ELSE [found |-> TRUE, blob |-> SubSeq(toks, 1, last)]

\* re.search(r"\{.*\}", s, flags=re.DOTALL): `.*` is greedy, so the match runs
\* from the first "{" to the last "}" of the text.
BraceMatch(toks) ==
    LET opens == {i \in 1..Len(toks) : toks[i] = "{"}
        first == CHOOSE i \in opens : \A j \in opens : i <= j
        closes == {i \in 1..Len(toks) : toks[i] = "}" /\ i > first}
        last == CHOOSE i \in closes : \A j \in closes : j <= i
    IN IF opens = {} \/ closes = {} THEN [found |-> FALSE, blob |-> <<>>]
       ELSE [found |-> TRUE, blob |-> SubSeq(toks, first, last)]

\* _parse_json: None is JNull (json.loads("null") returns None as well).
\* Whatever json.loads decodes is returned, a dict or not.
_parse_json(s) ==
    IF s = <<>> THEN JNull
    ELSE LET direct == json_loads(s) IN
         IF direct.ok THEN direct.v
         ELSE LET m == BraceMatch(s) IN
              IF m.found /\ json_loads(m.blob).ok THEN json_loads(m.blob).v
              ELSE JNull

\* str(x) of a decoded value
StrOf(v) ==
    CASE v.t = "str" -> v.s
      [] v.t = "num" -> <<Lit("7")>>
      [] v.t = "null" -> <<[k |-> "w", n |-> 4, c |-> "None"]>>
      [] OTHER -> <<[k |-> "w", n |-> 2, c |-> "repr"]>>

\* v.splitlines()
RECURSIVE SplitLines(_, _)
SplitLines(s, cur) ==
    IF s = <<>> THEN (IF cur = <<>> THEN <<>> ELSE <<cur>>)
    ELSE IF Head(s).k = "nl" THEN <<cur>> \o SplitLines(Tail(s), <<>>)
    ELSE SplitLines(Tail(s), Append(cur, Head(s)))

RECURSIVE StrEach(_)
StrEach(items) ==
    IF items = <<>> THEN <<>> ELSE <<Strip(StrOf(Head(items)))>> \o StrEach(Tail(items))

_as_list(v) ==
    CASE v.t = "null" -> <<>>
      [] v.t = "list" -> SelectNonEmpty(StrEach(v.items))
      [] v.t = "str" -> SelectNonEmpty(StripEach(SplitLines(v.s, <<>>)))
      [] OTHER -> SelectNonEmpty(<<Strip(StrOf(v))>>)

----------------------------------------------------------------------------
(* core/summarizer.py: the rule-based analyzer                              *)
(*                                                                          *)
(* A transcript is a sequence of lines, a line a sequence of items: words   *)
(* (or fixed phrases) of a small vocabulary and "." for one sentence        *)
(* punctuation character.  Items of a line are separated by one blank.      *)
(* Arabic keywords are written in Latin transliteration with the prefix     *)
(* ar_ (the module's strings are ASCII).                                    *)

\* DECISION_KWS (lines 22-25)
DECISION_KWS ==
    << "ar_tamm_alittifaq", "ar_ittafaqna", "ar_tamm_itimad", "ar_qararna",
       "ar_tamm_alqarar", "ar_qarar", "ar_itimad",
       "approve", "approved", "we decided", "decision", "agreed" >>

\* TASK_KWS (lines 26-29)
TASK_KWS ==
    << "ar_matlub", "ar_lazim", "ar_yurja", "ar_yurja_min", "ar_taklif", "ar_masul",
       "ar_ala", "ar_rah", "ar_sawfa", "ar_sanaqum",
       "todo", "to do", "action", "task", "need to", "please" >>

\* TOPIC_HINTS (lines 30-36), in the dict's order
TOPIC_HINTS ==
    << [topic |-> "intro_context",
        hints |-> <<"ar_iftitah", "ar_muqaddima", "ar_siyaq", "ar_hadaf", "ar_algharad",
                    "introduction", "context", "goal", "purpose">>],
       [topic |-> "technical",
        hints |-> <<"ar_nizam", "ar_khadim", "ar_server", "ar_qaida", "ar_bayanat",
                    "API", "ar_namudhaj", "model", "pipeline", "deployment">>],
       [topic |-> "work_plan",
        hints |-> <<"ar_khutta", "ar_jadwal", "deadline", "ar_mawid", "ar_marhala",
                    "ar_taslim", "next", "plan", "timeline">>],
       [topic |-> "problems_risks",
        hints |-> <<"ar_mushkila", "ar_khata", "ar_fashal", "ar_khatar",
                    "risk", "issue", "error", "blocked">>],
       [topic |-> "results_recommendations",
        hints |-> <<"ar_natija", "ar_istintaj", "ar_tawsiya",
                    "recommendation", "outcome", "result">>] >>

\* EN_STOP (lines 17-20); of AR_STOP (lines 10-16) the entries the Arabic
\* words of the vocabulary can meet.
STOP_WORDS ==
    { "the", "a", "an", "to", "of", "in", "on", "at", "for", "with", "and", "or", "is",
      "are", "was", "were", "be", "been", "it", "this", "that", "these", "those", "as",
      "by", "from", "ar_min", "ar_ila", "ar_ala", "ar_an", "ar_fi", "ar_maa" }

\* The module-level tables as the program holds them while it runs.
InitialTables ==
    [ DECISION_KWS |-> DECISION_KWS, TASK_KWS |-> TASK_KWS,
      TOPIC_HINTS |-> TOPIC_HINTS, STOP |-> STOP_WORDS ]

\* Speaker labels at the start of a line: "Speaker 1: ", "Speaker 2: ".
Labels == {"Speaker 1:", "Speaker 2:"}
SpeakerName(label) == IF label = "Speaker 1:" THEN "Speaker 1" ELSE "Speaker 2"

\* Distinct two-letter words "a?", for long transcripts of distinct
\* sentences; each is named by its second letter's position.
Fillers ==
    << "f01", "f02", "f03", "f04", "f05", "f06", "f07", "f08", "f09", "f10",
       "f11", "f12", "f13", "f14", "f15", "f16", "f17", "f18", "f19", "f20" >>
FillerSet == {Fillers[i] : i \in 1..Len(Fillers)}

\* What the program's string operations see of a vocabulary item:
\*   chars   its characters, in order
\*   letters the maximal letter runs of its lower-cased text (re.findall in
\*           _tokenize), before the length and stopword filters
\*   digit   whether it holds a digit
\*   subs    the lower-case keywords, hints and letter runs it contains
\* "long" is a word of 180 letters x; "ar_qararna" has five Arabic letters.
WordInfo(w) ==
    CASE w \in Labels ->
            [chars |-> <<"S", "p", "e", "a", "k", "e", "r", " ",
                         (IF w = "Speaker 1:" THEN "1" ELSE "2"), ":">>,
             letters |-> <<"speaker">>, digit |-> TRUE, subs |-> {"speaker"}]
      [] w = "hello" ->
            [chars |-> <<"h", "e", "l", "l", "o">>,
             letters |-> <<"hello">>, digit |-> FALSE, subs |-> {"hello"}]
      [] w = "budget" ->
            [chars |-> <<"b", "u", "d", "g", "e", "t">>,
             letters |-> <<"budget">>, digit |-> FALSE, subs |-> {"budget"}]
      [] w = "we decided" ->
            [chars |-> <<"w", "e", " ", "d", "e", "c", "i", "d", "e", "d">>,
             letters |-> <<"we", "decided">>, digit |-> FALSE,
             subs |-> {"we decided", "decided"}]
      [] w = "WE DECIDED" ->
            [chars |-> <<"W", "E", " ", "D", "E", "C", "I", "D", "E", "D">>,
             letters |-> <<"we", "decided">>, digit |-> FALSE,
             subs |-> {"we decided", "decided"}]
      [] w = "agreed" ->
            [chars |-> <<"a", "g", "r", "e", "e", "d">>,
             letters |-> <<"agreed">>, digit |-> FALSE, subs |-> {"agreed"}]
      [] w = "ar_qararna" ->
            [chars |-> <<"ar_q", "ar_r", "ar_r", "ar_n", "ar_a">>,
             letters |-> <<"ar_qararna">>, digit |-> FALSE, subs |-> {"ar_qararna"}]
      [] w = "please" ->
            [chars |-> <<"p", "l", "e", "a", "s", "e">>,
             letters |-> <<"please">>, digit |-> FALSE, subs |-> {"please"}]
      [] w = "42" ->
            [chars |-> <<"4", "2">>, letters |-> <<>>, digit |-> TRUE, subs |-> {}]
      [] w = "goal" ->
            [chars |-> <<"g", "o", "a", "l">>,
             letters |-> <<"goal">>, digit |-> FALSE, subs |-> {"goal"}]
      [] w = "plan" ->
            [chars |-> <<"p", "l", "a", "n">>,
             letters |-> <<"plan">>, digit |-> FALSE, subs |-> {"plan"}]
      [] w = "the" ->
            [chars |-> <<"t", "h", "e">>,
             letters |-> <<"the">>, digit |-> FALSE, subs |-> {"the"}]
      [] w = "long" ->
            [chars |-> [i \in 1..180 |-> "x"],
             letters |-> <<"long">>, digit |-> FALSE, subs |-> {"long"}]
      [] w \in FillerSet ->
            [chars |-> <<"a", w>>, letters |-> <<w>>, digit |-> FALSE, subs |-> {}]

\* len(t) <= 2 for a letter run t (line 61)
IsShortRun(t) == t \in {"we"} \cup FillerSet

\* k.lower()
Lower(k) == IF k = "API" THEN "api" ELSE k

\* The keywords, hints and letter runs found in s2, the lower-cased sentence s
Subs(s) == UNION {WordInfo(s[i]).subs : i \in 1..Len(s)}

\* k in s2
InSentence(k, s) == k \in Subs(s)

\* The concatenation of the sequences of a list, by halves.
RECURSIVE Concat(_)
Concat(seqs) ==
    IF Len(seqs) = 0 THEN <<>>
    ELSE IF Len(seqs) = 1 THEN seqs[1]
    ELSE Concat(SubSeq(seqs, 1, Len(seqs) \div 2))
         \o Concat(SubSeq(seqs, Len(seqs) \div 2 + 1, Len(seqs)))

\* The sequence f with every element computed, once.
Computed(f) == f \o <<>>

\* The elements of a finite set of integers in increasing order.
SortedSeq(set) ==
    Computed([k \in 1..Cardinality(set) |->
                 CHOOSE i \in set : Cardinality({j \in set : j < i}) = k - 1])

\* _split_sentences of the text whose lines are `lines` (lines 46-52).
\* Whitespace runs, newlines too, collapse to one blank before the split
\* (line 47), so a sentence runs on from one line into the next; the split
\* is at runs of punctuation (line 51) and empty parts are dropped (line 52):
\* the sentences are the maximal runs of items other than ".".
_split_sentences(lines) ==
    LET items == Concat(lines)
        starts == {i \in 1..Len(items) :
                      items[i] # "." /\ (i = 1 \/ items[i - 1] = ".")}
        EndOf(i) == CHOOSE j \in i..Len(items) :
                        /\ \A x \in i..j : items[x] # "."
                        /\ j = Len(items) \/ items[j + 1] = "."
        order == SortedSeq(starts)
    IN Computed([n \in 1..Len(order) |-> SubSeq(items, order[n], EndOf(order[n]))])

\* _tokenize (lines 55-66)
RECURSIVE KeepTokens(_, _)
KeepTokens(runs, tb) ==
    IF runs = <<>> THEN <<>>
    ELSE IF IsShortRun(Head(runs)) \/ Head(runs) \in tb.STOP
    THEN KeepTokens(Tail(runs), tb)
    ELSE <<Head(runs)>> \o KeepTokens(Tail(runs), tb)

RECURSIVE LetterRuns(_)
LetterRuns(s) ==
    IF s = <<>> THEN <<>> ELSE WordInfo(Head(s)).letters \o LetterRuns(Tail(s))

_tokenize(s, tb) == KeepTokens(LetterRuns(s), tb)

\* Lines 70-72, Counter.update with every sentence's tokens: the distinct
\* tokens in first-seen order, each with its count.
CounterOf(sentences, tb) ==
    LET toks == Concat(Computed([i \in 1..Len(sentences) |->
                                    _tokenize(sentences[i], tb)]))
        firsts == {i \in 1..Len(toks) : \A j \in 1..(i - 1) : toks[j] # toks[i]}
        order == SortedSeq(firsts)
    IN Computed([n \in 1..Len(order) |->
                    [key |-> Cardinality({j \in 1..Len(toks) : toks[j] = toks[order[n]]}),
                     val |-> toks[order[n]]]])

\* sorted(items, key=..., reverse=True): descending by key, equal keys in
\* their original order.
SortDesc(items) ==
    LET Before(i, j) == \/ items[i].key > items[j].key
                        \/ items[i].key = items[j].key /\ i < j
        Rank(j) == Cardinality({i \in 1..Len(items) : Before(i, j)})
    IN Computed([n \in 1..Len(items) |->
                    items[CHOOSE j \in 1..Len(items) : Rank(j) = n - 1]])

Vals(items) == Computed([i \in 1..Len(items) |-> items[i].val])

\* _top_keywords: Counter.most_common(k)
_top_keywords(sentences, k, tb) == Vals(FirstN(SortDesc(CounterOf(sentences, tb)), k))

\* any(k.lower() in s2 for k in kws)
HasKeyword(s, kws) ==
    LET found == Subs(s)
    IN \E i \in 1..Len(kws) : Lower(kws[i]) \in found

\* _detect_decisions comparing with s where the code compares with
\* s2 = s.lower(): a keyword in capitals goes unseen.
_detect_decisionsCaseSensitive(sentences, tb) ==
    LET Test(s) == HasKeyword(SelectSeq(s, LAMBDA w : w # "WE DECIDED"), tb.DECISION_KWS)
    IN FirstN(SelectSeq(sentences, Test), 12)

\* _detect_decisions (lines 76-82)
_detect_decisions(sentences, tb) ==
    LET Test(s) == HasKeyword(s, tb.DECISION_KWS)
    IN FirstN(SelectSeq(sentences, Test), 12)

\* _detect_tasks returning out whole, not out[:15].
_detect_tasksUncapped(sentences, tb) ==
    LET Test(s) == HasKeyword(s, tb.TASK_KWS)
    IN SelectSeq(sentences, Test)

\* _detect_tasks (lines 85-91)
_detect_tasks(sentences, tb) ==
    LET Test(s) == HasKeyword(s, tb.TASK_KWS)
    IN FirstN(SelectSeq(sentences, Test), 15)

\* _extract_numbers_dates (lines 94-100): each alternative of the pattern
\* needs a digit, and the last one matches any digit run.
_extract_numbers_dates(sentences) ==
    LET Test(s) == \E i \in 1..Len(s) : WordInfo(s[i]).digit
    IN FirstN(SelectSeq(sentences, Test), 12)

\* The position of key in the dict d; 0 when it is absent.
DictIndex(d, key) ==
    IF \E i \in 1..Len(d) : d[i].k = key
    THEN CHOOSE i \in 1..Len(d) : d[i].k = key
    ELSE 0

\* dict[key].append(item), a new key going to the end
DictAppend(d, key, item) ==
    LET i == DictIndex(d, key)
    IN IF i # 0 THEN [d EXCEPT ![i].v = Append(@, item)]
       ELSE Append(d, [k |-> key, v |-> <<item>>])

\* dict[key] = value
DictSet(d, key, value) ==
    LET i == DictIndex(d, key)
    IN IF i # 0 THEN [d EXCEPT ![i].v = value]
       ELSE Append(d, [k |-> key, v |-> value])

FixedTopic(name) == [kind |-> "fixed", name |-> name]
DynTopic(kw) == [kind |-> "dynamic", name |-> kw]
OtherTopics == [kind |-> "other", name |-> ""]

\* Lines 110-114 without the break, the sentence filed under the last topic
\* with a hint in it.
FirstTopicLastMatch(s, tb) ==
    LET hit == {t \in 1..Len(tb.TOPIC_HINTS) : HasKeyword(s, tb.TOPIC_HINTS[t].hints)}
    IN IF hit = {} THEN 0 ELSE CHOOSE t \in hit : \A u \in hit : t >= u

\* The first topic of the table with a hint in s; 0 when none (lines 110-114).
FirstTopic(s, tb) ==
    LET hit == {t \in 1..Len(tb.TOPIC_HINTS) : HasKeyword(s, tb.TOPIC_HINTS[t].hints)}
    IN IF hit = {} THEN 0 ELSE CHOOSE t \in hit : \A u \in hit : t <= u

\* The first of the keywords kw found in s; 0 when none (lines 126-130).
FirstKeyword(s, kw) ==
    LET hit == {i \in 1..Len(kw) : InSentence(kw[i], s)}
    IN IF hit = {} THEN 0 ELSE CHOOSE i \in hit : \A j \in hit : i <= j

\* Lines 105-116 without the break of line 114: a sentence is filed under
\* every topic with a hint in it.
ByHintsEveryMatch(sentences, tb) ==
    LET NoTopic(s) == FirstTopic(s, tb) = 0
    IN [groups |-> Computed([t \in 1..Len(tb.TOPIC_HINTS) |->
                                LET InTopic(s) == HasKeyword(s, tb.TOPIC_HINTS[t].hints)
                                IN [k |-> FixedTopic(tb.TOPIC_HINTS[t].topic),
                                    v |-> SelectSeq(sentences, InTopic)]]),
        other |-> SelectSeq(sentences, NoTopic)]

\* Lines 105-116: the fixed groups, in the table's order, and the sentences
\* no hint claims.
ByHints(sentences, tb) ==
    LET NoTopic(s) == FirstTopic(s, tb) = 0
    IN [groups |-> Computed([t \in 1..Len(tb.TOPIC_HINTS) |->
                                LET InTopic(s) == FirstTopic(s, tb) = t
                                IN [k |-> FixedTopic(tb.TOPIC_HINTS[t].topic),
                                    v |-> SelectSeq(sentences, InTopic)]]),
        other |-> SelectSeq(sentences, NoTopic)]

\* Lines 123-134: the dynamic buckets, in the order their keys first occur.
ByKeywords(other, kw) ==
    LET KeyOf(s) == IF FirstKeyword(s, kw) = 0 THEN OtherTopics
                    ELSE DynTopic(kw[FirstKeyword(s, kw)])
        firsts == {i \in 1..Len(other) :
                      \A j \in 1..(i - 1) : KeyOf(other[j]) # KeyOf(other[i])}
        order == SortedSeq(firsts)
    IN Computed([n \in 1..Len(order) |->
                    LET InBucket(s) == KeyOf(s) = KeyOf(other[order[n]])
                    IN [k |-> KeyOf(other[order[n]]), v |-> SelectSeq(other, InBucket)]])

RECURSIVE DictSetAll(_, _)
DictSetAll(d, items) ==
    IF items = <<>> THEN d
    ELSE DictSetAll(DictSet(d, Head(items).k, Head(items).v), Tail(items))

\* Lines 142-145 without the test `if lst`: empty groups stay.
TrimGroupsKeepEmpty(d, n) ==
    Computed([i \in 1..Len(d) |-> [k |-> d[i].k, v |-> FirstN(d[i].v, n)]])

\* Lines 142-145: the non-empty groups, each cut to its first n sentences.
TrimGroups(d, n) ==
    LET NonEmpty(g) == g.v # <<>>
        kept == SelectSeq(d, NonEmpty)
    IN Computed([i \in 1..Len(kept) |-> [k |-> kept[i].k, v |-> FirstN(kept[i].v, n)]])

\* _group_by_topics with list(dynamic.items())[:4] at line 137: the first four
\* buckets formed, whatever their sizes.
_group_by_topicsUnsorted(sentences, tb) ==
    LET fixed == ByHints(sentences, tb)
        kw == _top_keywords(fixed.other, 8, tb)
        dynamic == ByKeywords(fixed.other, kw)
        dyn_items == FirstN(dynamic, 4)
        groups == IF fixed.other # <<>> /\ kw # <<>>
                  THEN DictSetAll(fixed.groups, dyn_items)
                  ELSE fixed.groups
    IN TrimGroups(groups, 6)

\* _group_by_topics (lines 103-146); a dict is the sequence of its items.
_group_by_topics(sentences, tb) ==
    LET fixed == ByHints(sentences, tb)
        kw == _top_keywords(fixed.other, 8, tb)
        dynamic == ByKeywords(fixed.other, kw)
        keyed == Computed([i \in 1..Len(dynamic) |->
                              [key |-> Len(dynamic[i].v), val |-> dynamic[i]]])
        dyn_items == Vals(FirstN(SortDesc(keyed), 4))
        groups == IF fixed.other # <<>> /\ kw # <<>>
                  THEN DictSetAll(fixed.groups, dyn_items)
                  ELSE fixed.groups
    IN TrimGroups(groups, 6)

\* A line carries a label when a pattern of SPEAKER_PATTERNS matches it: the
\* label, then at least one more character (lines 159-163).  Labels stand at
\* the start of a line only.
IsLabelled(ln) == Len(ln) >= 2 /\ ln[1] \in Labels

\* Lines 158-170 with the else branch removed: a line without a label is
\* dropped.
ScanStepNoCarry(st, ln) ==
    IF IsLabelled(ln)
    THEN [cur_speaker |-> SpeakerName(ln[1]),
          speaker_map |-> DictAppend(st.speaker_map, SpeakerName(ln[1]), Tail(ln))]
    ELSE st

\* Lines 158-170 without the `if cur_speaker:` test: a line before any label
\* is filed under the key None.
ScanStepNoGuard(st, ln) ==
    IF IsLabelled(ln)
    THEN [cur_speaker |-> SpeakerName(ln[1]),
          speaker_map |-> DictAppend(st.speaker_map, SpeakerName(ln[1]), Tail(ln))]
    ELSE [st EXCEPT !.speaker_map = DictAppend(@, st.cur_speaker, ln)]

\* Lines 158-170: one line of the scan; cur_speaker "" is None.
ScanStep(st, ln) ==
    IF IsLabelled(ln)
    THEN [cur_speaker |-> SpeakerName(ln[1]),
          speaker_map |-> DictAppend(st.speaker_map, SpeakerName(ln[1]), Tail(ln))]
    ELSE IF st.cur_speaker # ""
    THEN [st EXCEPT !.speaker_map = DictAppend(@, st.cur_speaker, ln)]
    ELSE st

\* Lines 154-170: the scan over the non-empty lines.
RECURSIVE SpeakerScan(_, _)
SpeakerScan(lines, st) ==
    IF lines = <<>> THEN st
    ELSE SpeakerScan(Tail(lines), ScanStep(st, Head(lines)))

\* Lines 177-181: sents[:6] if sents else lst[:6]
SpeakerCut(lst) ==
    LET sents == _split_sentences(lst)
    IN IF sents # <<>> THEN FirstN(sents, 6) ELSE FirstN(lst, 6)

\* _group_by_speakers (lines 149-182)
_group_by_speakers(raw_lines) ==
    LET lines == SelectNonEmpty(raw_lines)
        speaker_map == SpeakerScan(lines, [cur_speaker |-> "", speaker_map |-> <<>>]).speaker_map
    IN Computed([i \in 1..Len(speaker_map) |->
                    [k |-> speaker_map[i].k, v |-> SpeakerCut(speaker_map[i].v)]])

\* The characters of a sentence: its items with one blank between neighbours.
RECURSIVE SentChars(_)
SentChars(s) ==
    IF s = <<>> THEN <<>>
    ELSE IF Len(s) = 1 THEN WordInfo(Head(s)).chars
    ELSE WordInfo(Head(s)).chars \o <<" ">> \o SentChars(Tail(s))

\* len(s)
SentLen(s) == Len(SentChars(s))

\* s[:n]
SentPrefix(s, n) == FirstN(SentChars(s), n)

\* Lines 203-212 without line 212: no penalty for length.
ScoreNoPenalty(s, keywords, tb) ==
    LET top8 == FirstN(keywords, 8)
        hits == Cardinality({i \in 1..Len(top8) : InSentence(top8[i], s)})
    IN 2 * hits
       + (IF HasKeyword(s, tb.DECISION_KWS) THEN 3 ELSE 0)
       + (IF HasKeyword(s, tb.TASK_KWS) THEN 2 ELSE 0)

\* Lines 203-212: the score of one sentence.
Score(s, keywords, tb) ==
    LET top8 == FirstN(keywords, 8)
        hits == Cardinality({i \in 1..Len(top8) : InSentence(top8[i], s)})
        pen == SentLen(s) \div 180
    IN 2 * hits
       + (IF HasKeyword(s, tb.DECISION_KWS) THEN 3 ELSE 0)
       + (IF HasKeyword(s, tb.TASK_KWS) THEN 2 ELSE 0)
       - (IF pen > 0 THEN pen ELSE 0)

\* Lines 217-223 with key = s: only a repeated sentence is dropped.
RECURSIVE DedupWholeSentence(_, _)
DedupWholeSentence(top, seen) ==
    IF top = <<>> THEN <<>>
    ELSE IF Head(top) \in seen THEN DedupWholeSentence(Tail(top), seen)
         ELSE <<Head(top)>> \o DedupWholeSentence(Tail(top), seen \cup {Head(top)})

\* Lines 217-223: drop a sentence whose first 60 characters were seen.
RECURSIVE Dedup(_, _)
Dedup(top, seen) ==
    IF top = <<>> THEN <<>>
    ELSE LET key == SentPrefix(Head(top), 60) IN
         IF key \in seen THEN Dedup(Tail(top), seen)
         ELSE <<Head(top)>> \o Dedup(Tail(top), seen \cup {key})

NoSmart ==
    [some |-> FALSE, bullets |-> <<>>, topics |-> <<>>, speakers |-> <<>>,
     decisions |-> <<>>, tasks |-> <<>>, numbers_dates |-> <<>>, keywords |-> <<>>]

\* Lines 201-213: the list `scored`, one (score, sentence) pair per sentence.
Scored(full_text, tb) ==
    LET sentences == _split_sentences(full_text)
        keywords == _top_keywords(sentences, 12, tb)
    IN Computed([i \in 1..Len(sentences) |->
                    [key |-> Score(sentences[i], keywords, tb), val |-> sentences[i]]])

\* build_smart_summary with the dedup loop run over all sorted sentences and
\* the cut to 10 taken after it.
build_smart_summaryDedupFirst(full_text, tb) ==
    LET sentences == _split_sentences(full_text)
        keywords == _top_keywords(sentences, 12, tb)
        scored == Scored(full_text, tb)
    IN [some |-> TRUE,
        bullets |-> FirstN(Dedup(Vals(SortDesc(scored)), {}), 10),
        topics |-> _group_by_topics(sentences, tb),
        speakers |-> _group_by_speakers(full_text),
        decisions |-> _detect_decisions(sentences, tb),
        tasks |-> _detect_tasks(sentences, tb),
        numbers_dates |-> _extract_numbers_dates(sentences),
        keywords |-> keywords]

\* build_smart_summary (lines 196-241)
build_smart_summary(full_text, tb) ==
    LET sentences == _split_sentences(full_text)
        keywords == _top_keywords(sentences, 12, tb)
        scored == Scored(full_text, tb)
        top == Vals(FirstN(SortDesc(scored), 10))
    IN [some |-> TRUE,
        bullets |-> Dedup(top, {}),
        topics |-> _group_by_topics(sentences, tb),
        speakers |-> _group_by_speakers(full_text),
        decisions |-> _detect_decisions(sentences, tb),
        tasks |-> _detect_tasks(sentences, tb),
        numbers_dates |-> _extract_numbers_dates(sentences),
        keywords |-> keywords]

----------------------------------------------------------------------------
(* Transcripts given to build_smart_summary *)

MaxLines == 3
MaxRep == 8

\* Lines: a labelled sentence, an unlabelled sentence, a sentence of another
\* speaker, a labelled line without end punctuation (its sentence runs on
\* into the next line), a blank line, a line of punctuation only, a label
\* with nothing after it.
LineSet ==
    { <<"Speaker 1:", "hello", ".">>,
      <<"budget", ".">>,
      <<"Speaker 2:", "plan", ".">>,
      <<"Speaker 1:", "we decided", "please">>,
      <<>>,
      <<".">>,
      <<"Speaker 1:">> }

ShortTexts(n) == UNION {[1..m -> LineSet] : m \in 0..n}

\* Line i of a long transcript, two sentences: each a decision, a task, a
\* number and a topic hint at once ("all"), or one no table knows ("plain");
\* the fillers make the sentences distinct.
BulkLine(kind, i) ==
    IF kind = "all"
    THEN <<"we decided", "please", "42", "goal", Fillers[2 * i - 1], ".",
           "we decided", "please", "42", "goal", Fillers[2 * i], ".">>
    ELSE <<"hello", Fillers[2 * i - 1], ".", "hello", Fillers[2 * i], ".">>

BulkTexts ==
    {pre \o [i \in 1..MaxRep |-> BulkLine(kind, i)] :
        pre \in ShortTexts(1), kind \in {"all", "plain"}}

\* Sentences for the decision detector: a keyword other than the two
\* phrases, a phrase in capitals, the Arabic phrase, no keyword at all.
DetectLines ==
    { <<"agreed", ".">>,
      <<"WE DECIDED", "budget", ".">>,
      <<"hello", "ar_qararna", ".">>,
      <<"hello", ".">> }

DetectTexts == UNION {[1..m -> DetectLines] : m \in 0..MaxLines}

\* Transcripts of sentences with hints of one, two or no fixed topic.
TopicLines ==
    { <<"goal", "plan", ".">>, <<"plan", "goal", ".">>,
      <<"plan", ".">>, <<"budget", ".">> }
TopicTexts == UNION {[1..m -> TopicLines] : m \in 0..MaxLines}

\* Transcripts with five keywords outside the hint table, each in a sentence
\* of its own, and up to two more sentences before and after them; "42" holds
\* no keyword.
DynLines ==
    { <<"hello", ".">>, <<"budget", ".">>, <<"agreed", ".">>, <<"please", ".">>,
      <<"ar_qararna", ".">>, <<"42", ".">> }
DynBase ==
    << <<"hello", ".">>, <<"budget", ".">>, <<"agreed", ".">>, <<"please", ".">>,
       <<"ar_qararna", ".">> >>
DynTexts ==
    {pre \o DynBase \o post :
        pre \in {<<>>} \cup {<<ln>> : ln \in DynLines},
        post \in {<<>>} \cup {<<ln>> : ln \in DynLines}}

\* Transcripts of one or two sentences, among them sentences without a
\* keyword (a number, a word of two letters, a stop word), a sentence with a
\* keyword twice and two sentences of more than 180 characters with the same
\* first 60.
PlainLines ==
    { <<"42", ".">>, <<"f01", ".">>, <<"the", ".">>, <<"goal", ".">>, <<"budget", ".">>,
      <<"budget", "budget", ".">>, <<"long", "please", ".">>, <<"long", "budget", ".">> }
PlainTexts == UNION {[1..m -> PlainLines] : m \in 1..2}

\* Transcripts of more than 10 sentences whose first two come again.
RepeatTexts ==
    {<<BulkLine(kind, 1)>> \o [i \in 1..MaxRep |-> BulkLine(kind, i)] :
        kind \in {"all", "plain"}}

SmartInputs ==
    ShortTexts(MaxLines) \cup BulkTexts \cup DetectTexts \cup TopicTexts \cup DynTexts
        \cup PlainTexts \cup RepeatTexts

OtherTexts == { <<<<"Speaker 2:", "we decided", "plan", ".">>, <<"budget", "42">>>> }

NoArg == [some |-> FALSE, lines |-> <<>>]

IdleSmart ==
    /\ sm_text = <<>>
    /\ sm_arg = NoArg
    /\ sm_out = NoSmart
    /\ sm_scored = <<>>
    /\ sm_first = NoSmart
    /\ sm_between = FALSE
    /\ tables = InitialTables

----------------------------------------------------------------------------
(* Inputs *)

MaxCallPieces == 3
MaxPieces == 7

Texts(n) == UNION {[1..m -> {W(2999), W(6000), P, NL(1)}] : m \in 0..n}

\* Transcripts of k sentences of w letters and a full stop, one per line.
MaxSentences == 7
RECURSIVE SentText(_, _)
SentText(w, k) ==
    IF k = 0 THEN <<>>
    ELSE IF k = 1 THEN <<W(w), P>>
    ELSE SentText(w, k - 1) \o <<NL(1), W(w), P>>
SentenceTexts == {SentText(w, k) : w \in {100, 300}, k \in 1..MaxSentences}

\* Outcomes of one POST: a 2xx reply with a well-formed body, HTTP 404, any
\* other non-2xx status, a connection error or timeout, a 2xx reply whose body
\* is not the expected JSON object.
PostOutcomes == {"ok", "404", "http_error", "conn_error", "bad_body"}

\* Response texts the model tries: empty, an object, prose, prose then an
\* object, an array, a number, null, {}, an object whose summary is a number,
\* one whose summary is blank, two objects around prose, an object then "}".
Responses ==
    { <<>>,
      <<"{", "sumS", "topA", "}">>,
      <<"prose">>,
      <<"prose", "{", "sumS", "topA", "}">>,
      <<"[", "num", "]">>,
      <<"num">>,
      <<"null">>,
      <<"{", "}">>,
      <<"{", "sumN", "}">>,
      <<"{", "sumB", "}">>,
      <<"{", "sumL", "}">>,
      <<"{", "sumS", "}", "prose", "{", "topA", "}">>,
      <<"{", "sumS", "}", "}">> }

----------------------------------------------------------------------------
(* OllamaSummarizer.summarize_structured *)

NoOut == [some |-> FALSE, s |-> <<>>]
NoResult == [some |-> FALSE, summary |-> <<>>, topics |-> <<>>, decisions |-> <<>>,
             tasks |-> <<>>, speakers |-> <<>>]
SummaryResult(summary, topics, decisions, tasks, speakers) ==
    [some |-> TRUE, summary |-> summary, topics |-> topics, decisions |-> decisions,
     tasks |-> tasks, speakers |-> speakers]
NoReply == [url |-> "none", s |-> <<>>]

\* _prompt_structured: the prompt carries the text, the title (the "(part i)"
\* suffix as part = i, 0 without suffix) and the compact flag.
_prompt_structured(text, part, compact) == [text |-> text, part |-> part, compact |-> compact]

\* Fault variant: the guard without .strip().
TrimmedTextNoStrip(t) == IF t.none THEN <<>> ELSE t.s

\* (transcript_text or "").strip()
TrimmedText(t) == IF t.none THEN <<>> ELSE Strip(t.s)

\* _summarize_chunk after _ollama_call returned o (lines 154-157).
\* raised: the AttributeError of parsed.get on a non-dict, or of .strip() on a
\* summary that is no string.
_summarize_chunk(text, o) ==
    LET parsed == _parse_json(o) IN
    IF ~Truthy(parsed) THEN [raised |-> FALSE, s |-> _fallback_summary(text)]
    ELSE IF parsed.t # "dict" THEN [raised |-> TRUE, s |-> <<>>]
    ELSE IF Truthy(parsed.summary) /\ parsed.summary.t # "str" THEN [raised |-> TRUE, s |-> <<>>]
    ELSE IF Truthy(parsed.summary) /\ Strip(parsed.summary.s) # <<>>
    THEN [raised |-> FALSE, s |-> Strip(StrOf(parsed.summary))]
    ELSE [raised |-> FALSE, s |-> _fallback_summary(text)]

\* _summarize_structured_once after _ollama_call returned o (lines 162-173).
_summarize_structured_once(text, o) ==
    LET parsed == _parse_json(o) IN
    IF ~Truthy(parsed)
    THEN [raised |-> FALSE,
          res |-> SummaryResult(_fallback_summary(text), <<>>, <<>>, <<>>, <<>>)]
    ELSE IF parsed.t # "dict" THEN [raised |-> TRUE, res |-> NoResult]
    ELSE [raised |-> FALSE,
          res |-> SummaryResult(
                      IF Truthy(parsed.summary) THEN Strip(StrOf(parsed.summary)) ELSE <<>>,
                      _as_list(parsed.topics), _as_list(JNull), _as_list(JNull),
                      _as_list(JNull))]

\* Fault variant: >= in place of >.
NeedsChunkingGE(text) == StrLen(text) >= MAX_CHARS

\* len(text) > max_chars (line 80)
NeedsChunking(text) == StrLen(text) > MAX_CHARS

\* Entering _ollama_call with prompt p.
BeginCall(p) ==
    /\ prompt' = p
    /\ calls' = Append(calls, p)
    /\ chat_status' = "none"
    /\ gen_status' = "none"
    /\ chat_posts' = 0
    /\ gen_posts' = 0
    /\ reply' = NoReply
    /\ out' = NoOut
    /\ pc' = "chat"

\* summarize_structured up to its first POST (lines 75-88).
Start ==
    /\ pc = "idle"
    /\ LET text == TrimmedText(transcript_text) IN
       IF text = <<>>
       THEN /\ pc' = "done"
            /\ result' = SummaryResult(<<>>, <<>>, <<>>, <<>>, <<>>)
            /\ UNCHANGED <<chunks, chunked, idx, chunk_summaries, prompt, calls,
                           chat_status, gen_status, chat_posts, gen_posts, reply, out>>
       ELSE IF NeedsChunking(text)
       THEN LET cs == _chunk_text(text, CHUNK_SIZE, MAX_CHUNKS) IN
            /\ chunks' = cs
            /\ chunked' = TRUE
            /\ chunk_summaries' = <<>>
            /\ IF cs = <<>>
               THEN /\ idx' = 0
                    /\ BeginCall(_prompt_structured(<<>>, 0, FALSE))
               ELSE /\ idx' = 1
                    /\ BeginCall(_prompt_structured(cs[1], 1, TRUE))
            /\ UNCHANGED result
       ELSE /\ idx' = 0
            /\ BeginCall(_prompt_structured(text, 0, FALSE))
            /\ UNCHANGED <<chunks, chunked, chunk_summaries, result>>
    /\ UNCHANGED <<transcript_text, http_posts, exc>>
    /\ UNCHANGED <<ck_vars, sm_vars, aux_vars>>

\* Fault variant: a 404 from /api/chat raised to the caller, no fallback POST.
ChatPost404Raises(o, r) ==
    /\ pc = "chat"
    /\ chat_posts' = chat_posts + 1
    /\ http_posts' = http_posts + 1
    /\ chat_status' = o
    /\ IF o = "ok"
       THEN /\ reply' = [url |-> "chat", s |-> r]
            /\ out' = [some |-> TRUE, s |-> r]
            /\ pc' = "ret"
            /\ exc' = exc
       ELSE /\ reply' = reply
            /\ out' = out
            /\ pc' = IF o = "404" THEN "raised" ELSE "generate"
            /\ exc' = IF o = "404" THEN "HTTPError" ELSE exc
    /\ UNCHANGED <<transcript_text, chunks, chunked, idx, chunk_summaries, prompt, calls,
                   gen_status, gen_posts, result>>
    /\ UNCHANGED <<ck_vars, sm_vars, aux_vars>>

\* Fault variant: a chat answer with empty content treated as a failure and
\* followed by the POST to /api/generate.
ChatPostEmptyFallsBack(o, r) ==
    /\ pc = "chat"
    /\ chat_posts' = chat_posts + 1
    /\ http_posts' = http_posts + 1
    /\ chat_status' = o
    /\ IF o = "ok" /\ r # <<>>
       THEN /\ reply' = [url |-> "chat", s |-> r]
            /\ out' = [some |-> TRUE, s |-> r]
            /\ pc' = "ret"
       ELSE /\ reply' = reply
            /\ out' = out
            /\ pc' = "generate"
    /\ UNCHANGED <<transcript_text, chunks, chunked, idx, chunk_summaries, prompt, calls,
                   gen_status, gen_posts, result, exc>>
    /\ UNCHANGED <<ck_vars, sm_vars, aux_vars>>

\* _ollama_call, the try block: the POST to /api/chat (lines 213-220).
ChatPost(o, r) ==
    /\ pc = "chat"
    /\ chat_posts' = chat_posts + 1
    /\ http_posts' = http_posts + 1
    /\ chat_status' = o
    /\ IF o = "ok"
       THEN /\ reply' = [url |-> "chat", s |-> r]
            /\ out' = [some |-> TRUE, s |-> r]
            /\ pc' = "ret"
       ELSE /\ reply' = reply
            /\ out' = out
            /\ pc' = "generate"
    /\ UNCHANGED <<transcript_text, chunks, chunked, idx, chunk_summaries, prompt, calls,
                   gen_status, gen_posts, result, exc>>
    /\ UNCHANGED <<ck_vars, sm_vars, aux_vars>>

\* The exception a failed POST raises.
CauseOf(o) ==
    CASE o \in {"404", "http_error"} -> "HTTPError"
      [] o = "conn_error" -> "ConnectionError"
      [] OTHER -> "ValueError"

\* Fault variant: a failed /api/generate POST swallowed, "" returned.
GeneratePostSwallow(o, r) ==
    /\ pc = "generate"
    /\ gen_posts' = gen_posts + 1
    /\ http_posts' = http_posts + 1
    /\ gen_status' = o
    /\ reply' = IF o = "ok" THEN [url |-> "generate", s |-> r] ELSE reply
    /\ out' = [some |-> TRUE, s |-> IF o = "ok" THEN r ELSE <<>>]
    /\ pc' = "ret"
    /\ UNCHANGED <<transcript_text, chunks, chunked, idx, chunk_summaries, prompt, calls,
                   chat_status, chat_posts, result, exc>>
    /\ UNCHANGED <<ck_vars, sm_vars, aux_vars>>

\* _ollama_call, the except block: the POST to /api/generate (lines 221-225).
GeneratePost(o, r) ==
    /\ pc = "generate"
    /\ gen_posts' = gen_posts + 1
    /\ http_posts' = http_posts + 1
    /\ gen_status' = o
    /\ IF o = "ok"
       THEN /\ reply' = [url |-> "generate", s |-> r]
            /\ out' = [some |-> TRUE, s |-> r]
            /\ pc' = "ret"
            /\ exc' = exc
       ELSE /\ reply' = reply
            /\ out' = out
            /\ pc' = "raised"
            /\ exc' = CauseOf(o)
    /\ UNCHANGED <<transcript_text, chunks, chunked, idx, chunk_summaries, prompt, calls,
                   chat_status, chat_posts, result>>
    /\ UNCHANGED <<ck_vars, sm_vars, aux_vars>>

\* Fault variant: the merged summaries go through summarize_structured again,
\* which chunks them when they are longer than MAX_CHARS.
ChunkReturnRechunks ==
    /\ pc = "ret"
    /\ idx > 0
    /\ LET r == _summarize_chunk(prompt.text, out.s) IN
       IF r.raised
       THEN /\ pc' = "raised"
            /\ exc' = "AttributeError"
            /\ UNCHANGED <<chunks, idx, chunk_summaries, prompt, calls, chat_status,
                           gen_status, chat_posts, gen_posts, reply, out>>
       ELSE LET sums == Append(chunk_summaries, r.s)
                merged == Join(<<NL(2)>>, sums)
            IN /\ exc' = exc
               /\ IF idx < Len(chunks)
                  THEN /\ idx' = idx + 1
                       /\ chunks' = chunks
                       /\ chunk_summaries' = sums
                       /\ BeginCall(_prompt_structured(chunks[idx + 1], idx + 1, TRUE))
                  ELSE IF NeedsChunking(merged)
                  THEN /\ idx' = 1
                       /\ chunks' = _chunk_text(merged, CHUNK_SIZE, MAX_CHUNKS)
                       /\ chunk_summaries' = <<>>
                       /\ BeginCall(_prompt_structured(chunks'[1], 1, TRUE))
                  ELSE /\ idx' = 0
                       /\ chunks' = chunks
                       /\ chunk_summaries' = sums
                       /\ BeginCall(_prompt_structured(merged, 0, FALSE))
    /\ UNCHANGED <<transcript_text, chunked, http_posts, result>>
    /\ UNCHANGED <<ck_vars, sm_vars, aux_vars>>

\* _summarize_chunk's return into the for loop (lines 83-86): the next
\* chunk's call, or after the last chunk the call on the merged summaries.
ChunkReturn ==
    /\ pc = "ret"
    /\ idx > 0
    /\ LET r == _summarize_chunk(prompt.text, out.s) IN
       IF r.raised
       THEN /\ pc' = "raised"
            /\ exc' = "AttributeError"
            /\ UNCHANGED <<idx, chunk_summaries, prompt, calls, chat_status, gen_status,
                           chat_posts, gen_posts, reply, out>>
       ELSE LET sums == Append(chunk_summaries, r.s) IN
            /\ chunk_summaries' = sums
            /\ exc' = exc
            /\ IF idx < Len(chunks)
               THEN /\ idx' = idx + 1
                    /\ BeginCall(_prompt_structured(chunks[idx + 1], idx + 1, TRUE))
               ELSE /\ idx' = 0
                    /\ BeginCall(_prompt_structured(Join(<<NL(2)>>, sums), 0, FALSE))
    /\ UNCHANGED <<transcript_text, chunks, chunked, http_posts, result>>
    /\ UNCHANGED <<ck_vars, sm_vars, aux_vars>>

\* _summarize_structured_once's return to the caller of summarize_structured.
OnceReturn ==
    /\ pc = "ret"
    /\ idx = 0
    /\ LET r == _summarize_structured_once(prompt.text, out.s) IN
       IF r.raised
       THEN /\ pc' = "raised"
            /\ exc' = "AttributeError"
            /\ result' = result
       ELSE /\ pc' = "done"
            /\ exc' = exc
            /\ result' = r.res
    /\ UNCHANGED <<transcript_text, chunks, chunked, idx, chunk_summaries, prompt, calls,
                   chat_status, gen_status, chat_posts, gen_posts, http_posts, reply, out>>
    /\ UNCHANGED <<ck_vars, sm_vars, aux_vars>>

\* The default base URL and no request (line 46).
IdleUrl ==
    /\ url_arg = <<"host">>
    /\ url_pc = "ready"
    /\ base_url = <<"host">>
    /\ url_prev = <<>>
    /\ url_sent = {}

\* TranscriptionService.__init__ (lines 26-30) and an empty event queue.
IdleJobs ==
    /\ ts_busy = FALSE
    /\ ts_pc = "idle"
    /\ ts_job = 0
    /\ ts_events = <<>>
    /\ ts_requests = <<>>
    /\ ts_emitted = <<>>
    /\ ts_ignored = {}
    /\ ts_jobs = <<>>

\* RecordingService.__init__ (lines 24-35)
IdleRec ==
    /\ rec_stream = 0
    /\ rec_running = FALSE
    /\ rec_frames = 0
    /\ rec_paused = FALSE
    /\ rec_opened = 0
    /\ rec_emitted = <<>>
    /\ rec_last = [op |-> "none", stream |-> 0, frames |-> 0, paused |-> FALSE, opened |-> 0]

IdleAux == IdleUrl /\ IdleJobs /\ IdleRec

IdleLLM ==
    /\ pc = "idle"
    /\ chunks = <<>>
    /\ chunked = FALSE
    /\ idx = 0
    /\ chunk_summaries = <<>>
    /\ prompt = [text |-> <<>>, part |-> 0, compact |-> FALSE]
    /\ calls = <<>>
    /\ chat_status = "none"
    /\ gen_status = "none"
    /\ chat_posts = 0
    /\ gen_posts = 0
    /\ http_posts = 0
    /\ reply = NoReply
    /\ out = NoOut
    /\ result = NoResult
    /\ exc = "none"

IdleChunk ==
    /\ ck_text = <<>>
    /\ ck_parts = <<>>
    /\ ck_done = FALSE

Init ==
    /\ transcript_text \in
           {[none |-> TRUE, s |-> <<>>]}
           \cup {[none |-> FALSE, s |-> s] : s \in Texts(MaxCallPieces) \cup SentenceTexts}
    /\ IdleLLM
    /\ IdleChunk
    /\ IdleSmart
    /\ IdleAux

Next ==
    \/ Start
    \/ \E o \in PostOutcomes, r \in Responses : ChatPost(o, r)
    \/ \E o \in PostOutcomes, r \in Responses : GeneratePost(o, r)
    \/ ChunkReturn
    \/ OnceReturn

Spec == Init /\ [][Next]_vars

----------------------------------------------------------------------------
(* _chunk_text applied to a text *)

ApplyChunkText ==
    /\ ~ck_done
    /\ ck_parts' = _chunk_text(ck_text, CHUNK_SIZE, MAX_CHUNKS)
    /\ ck_done' = TRUE
    /\ UNCHANGED <<ck_text, llm_vars, sm_vars, aux_vars>>

InitChunk ==
    /\ ck_text \in Texts(MaxPieces)
    /\ ck_parts = <<>>
    /\ ck_done = FALSE
    /\ transcript_text = [none |-> TRUE, s |-> <<>>]
    /\ IdleLLM
    /\ IdleSmart
    /\ IdleAux


SpecChunk == InitChunk /\ [][ApplyChunkText]_vars

----------------------------------------------------------------------------
(* build_smart_summary applied to transcripts *)

\* An analysis that adds the keywords it found to the stopword table.
RunAnalysisLearning(text) ==
    /\ sm_arg' = [some |-> TRUE, lines |-> text]
    /\ sm_out' = build_smart_summary(text, tables)
    /\ sm_scored' = Scored(text, tables)
    /\ tables' = [tables EXCEPT !.STOP =
                     @ \cup {sm_out'.keywords[i] : i \in 1..Len(sm_out'.keywords)}]

\* One analysis: build_smart_summary(text), reading the module tables and
\* leaving them as they are.
RunAnalysis(text) ==
    /\ sm_arg' = [some |-> TRUE, lines |-> text]
    /\ sm_out' = build_smart_summary(text, tables)
    /\ sm_scored' = Scored(text, tables)
    /\ tables' = tables

\* The transcript under study is analysed: for the first time, or again.
BuildSmart ==
    /\ RunAnalysis(sm_text)
    /\ sm_first' = IF sm_first.some THEN sm_first ELSE sm_out'
    /\ UNCHANGED <<sm_text, sm_between, llm_vars, ck_vars, aux_vars>>

\* Another transcript is analysed after the first run on sm_text.
BuildOther(b) ==
    /\ sm_first.some
    /\ b # sm_text
    /\ RunAnalysis(b)
    /\ sm_between' = TRUE
    /\ UNCHANGED <<sm_text, sm_first, llm_vars, ck_vars, aux_vars>>

InitSmart ==
    /\ sm_text \in SmartInputs
    /\ sm_arg = NoArg
    /\ sm_out = NoSmart
    /\ sm_scored = <<>>
    /\ sm_first = NoSmart
    /\ sm_between = FALSE
    /\ tables = InitialTables
    /\ transcript_text = [none |-> TRUE, s |-> <<>>]
    /\ IdleLLM
    /\ IdleChunk
    /\ IdleAux

NextSmart ==
    \/ BuildSmart
    \/ \E b \in OtherTexts : BuildOther(b)

SpecSmart == InitSmart /\ [][NextSmart]_vars

----------------------------------------------------------------------------
(* OllamaSummarizer.__init__: the base URL                                  *)
(*                                                                          *)
(* A URL is a sequence of parts: "host" (scheme, host and port), "/", the   *)
(* three letters "api" and " " for one white space character.               *)

MaxUrlParts == 4
UrlInputs ==
    {<<"host">> \o s : s \in UNION {[1..n -> {"/", "api", " "}] : n \in 0..MaxUrlParts}}

\* s.strip()
RECURSIVE StripUrl(_)
StripUrl(u) ==
    IF u = <<>> THEN u
    ELSE IF Head(u) = " " THEN StripUrl(Tail(u))
    ELSE IF u[Len(u)] = " " THEN StripUrl(SubSeq(u, 1, Len(u) - 1))
    ELSE u

\* s.rstrip("/")
RECURSIVE RStripSlash(_)
RStripSlash(u) ==
    IF u # <<>> /\ u[Len(u)] = "/" THEN RStripSlash(SubSeq(u, 1, Len(u) - 1)) ELSE u

\* s.endswith("/api")
EndsWithApi(u) == Len(u) >= 2 /\ u[Len(u)] = "api" /\ u[Len(u) - 1] = "/"

\* Lines 56-58: strip, rstrip("/"), one "/api" suffix removed.
NormalizeBaseUrl(u) ==
    LET v == RStripSlash(StripUrl(u))
    IN IF EndsWithApi(v) THEN SubSeq(v, 1, Len(v) - 2) ELSE v

\* f"{self.base_url}/api/chat" (line 214), f"{self.base_url}/api/generate"
\* (line 222)
ChatUrl(b) == b \o <<"/", "api", "/", "chat">>
GenerateUrl(b) == b \o <<"/", "api", "/", "generate">>

\* OllamaSummarizer(base_url=url_arg)
Construct ==
    /\ url_pc = "new"
    /\ base_url' = NormalizeBaseUrl(url_arg)
    /\ url_pc' = "ready"
    /\ UNCHANGED <<url_arg, url_prev, url_sent>>
    /\ UNCHANGED <<llm_vars, ck_vars, sm_vars, ts_vars, rec_vars>>

\* OllamaSummarizer(base_url=other.base_url): a summarizer built from the
\* URL another one stored.
ConstructAgain ==
    /\ url_pc = "ready"
    /\ url_prev = <<>>
    /\ url_arg' = base_url
    /\ url_prev' = base_url
    /\ base_url' = NormalizeBaseUrl(base_url)
    /\ UNCHANGED <<url_pc, url_sent>>
    /\ UNCHANGED <<llm_vars, ck_vars, sm_vars, ts_vars, rec_vars>>

\* The POST of the try block of _ollama_call (line 214).
PostToChat ==
    /\ url_pc = "ready"
    /\ url_sent' = url_sent \cup {ChatUrl(base_url)}
    /\ UNCHANGED <<url_arg, url_pc, base_url, url_prev>>
    /\ UNCHANGED <<llm_vars, ck_vars, sm_vars, ts_vars, rec_vars>>

\* The POST of the except block of _ollama_call (line 222).
PostToGenerate ==
    /\ url_pc = "ready"
    /\ ChatUrl(base_url) \in url_sent
    /\ url_sent' = url_sent \cup {GenerateUrl(base_url)}
    /\ UNCHANGED <<url_arg, url_pc, base_url, url_prev>>
    /\ UNCHANGED <<llm_vars, ck_vars, sm_vars, ts_vars, rec_vars>>

InitUrl ==
    /\ url_arg \in UrlInputs
    /\ url_pc = "new"
    /\ base_url = <<>>
    /\ url_prev = <<>>
    /\ url_sent = {}
    /\ transcript_text = [none |-> TRUE, s |-> <<>>]
    /\ IdleLLM
    /\ IdleChunk
    /\ IdleSmart
    /\ IdleJobs
    /\ IdleRec

NextUrl ==
    \/ Construct
    \/ ConstructAgain
    \/ PostToChat
    \/ PostToGenerate

SpecUrl == InitUrl /\ [][NextUrl]_vars

----------------------------------------------------------------------------
(* TranscriptionService on its worker thread                                *)
(*                                                                          *)
(* main_window.py connects request_transcribe to start_job with             *)
(* Qt.QueuedConnection (line 399) after moving the service to its own       *)
(* QThread (lines 389-392): an emitted request is an event in the worker    *)
(* thread's queue, and the worker's event loop delivers the next event      *)
(* only after the slot it is running has returned.  start_job never         *)
(* re-enters the event loop.  Signals are the strings emitted, in order.    *)

MaxRequests == 3

\* A request_transcribe.emit of the main thread: the request is numbered,
\* its origin and the value of _busy at that moment are remembered, and the
\* call of start_job is queued to the worker thread.
Emit_request_transcribe(origin) ==
    /\ Len(ts_requests) < MaxRequests
    /\ ts_requests' = Append(ts_requests, [origin |-> origin, busy |-> ts_busy])
    /\ ts_events' = Append(ts_events, Len(ts_requests) + 1)
    /\ UNCHANGED <<ts_busy, ts_pc, ts_job, ts_emitted, ts_ignored, ts_jobs>>
    /\ UNCHANGED <<llm_vars, ck_vars, sm_vars, url_vars, rec_vars>>

\* MainWindow._transcribe_selected_file (lines 458-469)
_transcribe_selected_file == Emit_request_transcribe("file")

\* MainWindow._on_record_saved (lines 489-496): the slot of
\* RecordingService.saved; it emits without looking at the busy state.
_on_record_saved == Emit_request_transcribe("record")

\* The try block went on to `next` after emitting `signals`, or raised.
JobStep(at, ok, signals, next) ==
    /\ ts_pc = at
    /\ ts_emitted' = ts_emitted \o signals
    /\ ts_pc' = IF ok THEN next ELSE "except"
    /\ UNCHANGED <<ts_busy, ts_job, ts_events, ts_requests, ts_ignored, ts_jobs>>
    /\ UNCHANGED <<llm_vars, ck_vars, sm_vars, url_vars, rec_vars>>

\* The worker's event loop delivers the oldest queued call of start_job;
\* lines 34-38: the busy guard, then _busy = True and busy_changed(True).
start_job ==
    /\ ts_pc = "idle"
    /\ ts_events # <<>>
    /\ ts_events' = Tail(ts_events)
    /\ IF ts_busy
       THEN /\ ts_ignored' = ts_ignored \cup {Head(ts_events)}
            /\ UNCHANGED <<ts_busy, ts_pc, ts_job, ts_emitted, ts_jobs>>
       ELSE /\ ts_busy' = TRUE
            /\ ts_job' = Head(ts_events)
            /\ ts_jobs' = Append(ts_jobs, Head(ts_events))
            /\ ts_emitted' = <<"busy_changed(True)">>
            /\ ts_pc' = "prepare"
            /\ UNCHANGED ts_ignored
    /\ UNCHANGED ts_requests
    /\ UNCHANGED <<llm_vars, ck_vars, sm_vars, url_vars, rec_vars>>

\* Lines 40-46: ensure_dirs, the source must exist, then the first signals.
job_prepare ==
    \E ok \in BOOLEAN :
        JobStep("prepare", ok,
                IF ok THEN <<"status('Converting...')", "progress(0)">> ELSE <<>>,
                "convert")

\* Lines 48-62: ffmpeg; on_p forwards its percentages, which
\* convert_to_wav16k_mono caps at 95 (ffmpeg_utils.py lines 94-101).
job_convert ==
    \E ok \in BOOLEAN, pct \in {<<>>, <<"progress(40)">>, <<"progress(40)", "progress(95)">>} :
        JobStep("convert", ok,
                pct \o (IF ok THEN <<"status('Loading model...')">> ELSE <<>>),
                "load")

\* Lines 65-68
job_load_model ==
    \E ok \in BOOLEAN :
        JobStep("load", ok,
                IF ok THEN <<"status('Transcribing...')", "progress(95)">> ELSE <<>>,
                "transcribe")

\* Lines 70-135: the segments; a percentage between 95 and 99 is emitted
\* when it changes (lines 100-104).
job_transcribe ==
    \E ok \in BOOLEAN, pct \in {<<>>, <<"progress(99)">>} :
        JobStep("transcribe", ok,
                pct \o (IF ok THEN <<"status('Summarizing...')">> ELSE <<>>),
                "summarize")

\* Lines 136-151
job_summarize ==
    \E ok \in BOOLEAN :
        JobStep("summarize", ok,
                IF ok THEN <<"status('Building DOCX...')">> ELSE <<>>,
                "report")

\* Lines 152-171: the report and the JSON file, then the three last signals
\* of the try block.
job_report ==
    \E ok \in BOOLEAN :
        JobStep("report", ok,
                IF ok THEN <<"progress(100)", "status('Done')", "result">> ELSE <<>>,
                "finally")

\* Lines 173-175
job_except == JobStep("except", TRUE, <<"error", "status('Error')">>, "finally")

\* The reset of _busy as the last statements of the try block instead of a
\* finally clause: a failed job leaves the flag set.
job_finallyOnSuccess ==
    /\ ts_pc = "finally"
    /\ ts_busy' = (\E i \in 1..Len(ts_emitted) : ts_emitted[i] = "error")
    /\ ts_emitted' = IF ts_busy' THEN ts_emitted ELSE Append(ts_emitted, "busy_changed(False)")
    /\ ts_pc' = "idle"
    /\ ts_job' = 0
    /\ UNCHANGED <<ts_events, ts_requests, ts_ignored, ts_jobs>>
    /\ UNCHANGED <<llm_vars, ck_vars, sm_vars, url_vars, rec_vars>>

\* Lines 176-178; start_job returns and the event loop is free again.
job_finally ==
    /\ ts_pc = "finally"
    /\ ts_busy' = FALSE
    /\ ts_emitted' = Append(ts_emitted, "busy_changed(False)")
    /\ ts_pc' = "idle"
    /\ ts_job' = 0
    /\ UNCHANGED <<ts_events, ts_requests, ts_ignored, ts_jobs>>
    /\ UNCHANGED <<llm_vars, ck_vars, sm_vars, url_vars, rec_vars>>

InitJobs ==
    /\ IdleJobs
    /\ transcript_text = [none |-> TRUE, s |-> <<>>]
    /\ IdleLLM
    /\ IdleChunk
    /\ IdleSmart
    /\ IdleUrl
    /\ IdleRec

NextJobs ==
    \/ _transcribe_selected_file
    \/ _on_record_saved
    \/ start_job
    \/ job_prepare
    \/ job_convert
    \/ job_load_model
    \/ job_transcribe
    \/ job_summarize
    \/ job_report
    \/ job_except
    \/ job_finally

SpecJobs == InitJobs /\ [][NextJobs]_vars

----------------------------------------------------------------------------
(* RecordingService                                                         *)
(*                                                                          *)
(* The three slots run one at a time on the recording thread (queued        *)
(* connections, main_window.py lines 400-402); the audio callback runs      *)
(* between them.  _frames is the number of blocks captured, _stream the     *)
(* number of the InputStream held (0: None).                                *)

MaxStreams == 2
MaxFrames == 2

\* What a slot found when it was called.
RecBefore(op) ==
    [op |-> op, stream |-> rec_stream, frames |-> rec_frames,
     paused |-> rec_paused, opened |-> rec_opened]

\* Lines 147-148
_cleanup == rec_paused' = FALSE

\* Lines 37-83.  ensure_dirs (line 40), the InputStream constructor
\* (line 68) and stream.start (line 75) can each raise; the handler of lines
\* 80-83 emits error and state and calls _cleanup.
start_recording ==
    \E raised \in {"none", "ensure_dirs", "InputStream", "start"} :
        /\ rec_last' = RecBefore("start_recording")
        /\ IF raised = "ensure_dirs"
           THEN /\ rec_emitted' = <<"error", "state('Error')">>
                /\ _cleanup
                /\ UNCHANGED <<rec_stream, rec_running, rec_frames, rec_opened>>
           ELSE IF rec_stream # 0
           THEN /\ rec_emitted' = <<"log('Recording already running.')">>
                /\ UNCHANGED <<rec_stream, rec_running, rec_frames, rec_paused, rec_opened>>
           ELSE /\ rec_frames' = 0
                /\ rec_paused' = FALSE
                /\ IF raised = "InputStream"
                   THEN /\ rec_emitted' = <<"error", "state('Error')">>
                        /\ UNCHANGED <<rec_stream, rec_running, rec_opened>>
                   ELSE /\ rec_opened < MaxStreams
                        /\ rec_opened' = rec_opened + 1
                        /\ rec_stream' = rec_opened + 1
                        /\ rec_running' = (raised = "none")
                        /\ rec_emitted' = IF raised = "none"
                                          THEN <<"state('Recording')", "log('Recording started')">>
                                          ELSE <<"error", "state('Error')">>
        /\ UNCHANGED <<llm_vars, ck_vars, sm_vars, url_vars, ts_vars>>

\* Lines 54-66: the callback of the running stream.
callback ==
    /\ rec_running
    /\ rec_last' = RecBefore("callback")
    /\ IF rec_paused
       THEN /\ rec_emitted' = <<"level(0.0)">>
            /\ UNCHANGED rec_frames
       ELSE /\ rec_frames < MaxFrames
            /\ rec_frames' = rec_frames + 1
            /\ rec_emitted' = <<"level">>
    /\ UNCHANGED <<rec_stream, rec_running, rec_paused, rec_opened>>
    /\ UNCHANGED <<llm_vars, ck_vars, sm_vars, url_vars, ts_vars>>

\* Lines 85-95
toggle_pause ==
    /\ rec_last' = RecBefore("toggle_pause")
    /\ IF rec_stream = 0
       THEN /\ rec_emitted' = <<>>
            /\ UNCHANGED rec_paused
       ELSE /\ rec_paused' = ~rec_paused
            /\ rec_emitted' = IF ~rec_paused
                              THEN <<"state('Paused')", "log('Paused')">>
                              ELSE <<"state('Recording')", "log('Resumed')">>
    /\ UNCHANGED <<rec_stream, rec_running, rec_frames, rec_opened>>
    /\ UNCHANGED <<llm_vars, ck_vars, sm_vars, url_vars, ts_vars>>

\* Lines 97-122.  stream.stop/close (lines 106-107) and the merge and write
\* of lines 111-112 can raise; _stream is reset by the inner finally and
\* _cleanup runs in the outer one.
stop_recording ==
    \E raised \in {"none", "stop", "write"} :
        /\ rec_last' = RecBefore("stop_recording")
        /\ IF rec_stream = 0
           THEN /\ rec_emitted' = <<>>
                /\ UNCHANGED <<rec_stream, rec_running>>
           ELSE /\ rec_stream' = 0
                /\ rec_running' = FALSE
                /\ rec_emitted' = IF raised = "none"
                                  THEN <<"state('Idle')", "saved", "log('Recording saved')">>
                                  ELSE <<"error", "state('Error')">>
        /\ _cleanup
        /\ UNCHANGED <<rec_frames, rec_opened>>
        /\ UNCHANGED <<llm_vars, ck_vars, sm_vars, url_vars, ts_vars>>

InitRec ==
    /\ IdleRec
    /\ transcript_text = [none |-> TRUE, s |-> <<>>]
    /\ IdleLLM
    /\ IdleChunk
    /\ IdleSmart
    /\ IdleUrl
    /\ IdleJobs

NextRec ==
    \/ start_recording
    \/ callback
    \/ toggle_pause
    \/ stop_recording

SpecRec == InitRec /\ [][NextRec]_vars

----------------------------------------------------------------------------
(* Properties of OllamaSummarizer *)

IsBlankArg(t) == t.none \/ \A i \in 1..Len(t.s) : t.s[i].k \in {"nl", "sp"}
EmptySummaryResult ==
    [some |-> TRUE, summary |-> <<>>, topics |-> <<>>, decisions |-> <<>>,
     tasks |-> <<>>, speakers |-> <<>>]
TransportCauses == {"HTTPError", "ConnectionError", "ValueError"}

\* C1: summarize_structured on an empty, whitespace-only or None transcript
\* returns the empty SummaryResult and issues no POST, chat or generate.
C1_BlankReturnsEmptyNoPost ==
    (IsBlankArg(transcript_text) /\ pc # "idle") =>
        /\ pc = "done"
        /\ result = EmptySummaryResult
        /\ http_posts = 0 /\ chat_posts = 0 /\ gen_posts = 0
        /\ calls = <<>>

C1_Witness ==
    /\ pc = "done"
    /\ ~transcript_text.none
    /\ Len(transcript_text.s) >= 2
    /\ IsBlankArg(transcript_text)

\* C2: once a logical endpoint call has returned a response text (single path
\* or any chunk), summarize_structured does not raise because of that text.
C2_NeverRaisesOnContent == ~(pc = "raised" /\ out.some)

\* C3: when the chat POST fails and the generate POST fails too, the call ends
\* raised with the transport error; no SummaryResult is returned.
C3_BothFailRaises ==
    (gen_status \notin {"none", "ok"}) =>
        /\ chat_status \notin {"none", "ok"}
        /\ pc = "raised"
        /\ exc \in TransportCauses
        /\ ~result.some
        /\ ~out.some

C3_Witness ==
    /\ pc = "raised"
    /\ chat_status = "http_error"
    /\ gen_status = "conn_error"
    /\ exc = "ConnectionError"
    /\ idx = 2

\* C4: after a 404 from /api/chat exactly one POST to /api/generate is issued
\* in that logical call before anything is surfaced; when it succeeds, its
\* reply text is what the logical call returns.
C4_NotFoundOneGenerate ==
    (chat_status = "404") =>
        /\ chat_posts = 1
        /\ (pc = "generate" => gen_posts = 0 /\ ~result.some /\ exc = "none")
        /\ (pc # "generate" => gen_posts = 1)
        /\ (gen_status = "ok" => reply.url = "generate" /\ out = [some |-> TRUE, s |-> reply.s])

C4_Witness ==
    /\ chat_status = "404"
    /\ gen_status = "ok"
    /\ pc = "done"
    /\ out.s = <<"{", "sumS", "topA", "}">>
    /\ result.summary = <<Lit("x")>>

\* C6: a non-blank transcript of trimmed length <= 12000 takes the single
\* path: no chunking, no "(part i)" call, one logical call carrying the whole
\* trimmed transcript; from 12001 on the chunked path is taken.
C6_SinglePathUpTo12000 ==
    LET text == IF transcript_text.none THEN <<>> ELSE Strip(transcript_text.s)
        n == StrLen(text) IN
    (pc # "idle" /\ n > 0) =>
        /\ (n <= 12000 =>
               /\ ~chunked /\ chunks = <<>> /\ chunk_summaries = <<>>
               /\ calls = <<[text |-> text, part |-> 0, compact |-> FALSE]>>)
        /\ (n >= 12001 =>
               /\ chunked /\ chunks # <<>>
               /\ calls[1] = [text |-> chunks[1], part |-> 1, compact |-> TRUE])

C6_Witness ==
    /\ pc = "done"
    /\ ~transcript_text.none
    /\ StrLen(Strip(transcript_text.s)) = 12000
    /\ Len(calls) = 1
    /\ http_posts >= 1

----------------------------------------------------------------------------
(* Properties of _chunk_text *)

\* C5: for a trimmed transcript longer than 12000 characters _chunk_text
\* (chunk_size 6000, max_chunks 6) yields at most 6 chunks, each of at most
\* 6000 characters.
C5_ChunksBounded ==
    (ck_done /\ Strip(ck_text) = ck_text /\ StrLen(ck_text) > 12000) =>
        /\ Len(ck_parts) <= 6
        /\ \A i \in 1..Len(ck_parts) : StrLen(ck_parts[i]) <= 6000

----------------------------------------------------------------------------
(* Properties of build_smart_summary *)

\* C7: for every transcript build_smart_summary returns at most 10 bullets,
\* 12 decisions, 15 tasks and 12 numbers_dates, and every topic group and
\* every speaker group holds at most 6 sentences.
C7_ListsCapped ==
    sm_out.some =>
        /\ Len(sm_out.bullets) <= 10
        /\ Len(sm_out.decisions) <= 12
        /\ Len(sm_out.tasks) <= 15
        /\ Len(sm_out.numbers_dates) <= 12
        /\ \A g \in 1..Len(sm_out.topics) : Len(sm_out.topics[g].v) <= 6
        /\ \A g \in 1..Len(sm_out.speakers) : Len(sm_out.speakers[g].v) <= 6

\* A transcript of more than 15 sentences on which every cap is met at once.
C7_Witness ==
    /\ sm_out.some
    /\ Len(_split_sentences(sm_arg.lines)) > 15
    /\ Len(sm_out.bullets) = 10
    /\ Len(sm_out.decisions) = 12
    /\ Len(sm_out.tasks) = 15
    /\ Len(sm_out.numbers_dates) = 12
    /\ \E g \in 1..Len(sm_out.topics) : Len(sm_out.topics[g].v) = 6
    /\ \E g \in 1..Len(sm_out.speakers) : Len(sm_out.speakers[g].v) = 6

IsBlankTranscript(lines) == \A i \in 1..Len(lines) : lines[i] = <<>>

EmptySmartSummary ==
    [some |-> TRUE, bullets |-> <<>>, topics |-> <<>>, speakers |-> <<>>,
     decisions |-> <<>>, tasks |-> <<>>, numbers_dates |-> <<>>, keywords |-> <<>>]

\* C8: on an empty or whitespace-only transcript build_smart_summary returns
\* a SmartSummary whose bullets, decisions, tasks, numbers_dates and keywords
\* are empty lists and whose topics and speakers are empty maps.
C8_BlankGivesEmpty ==
    (sm_out.some /\ IsBlankTranscript(sm_arg.lines)) => sm_out = EmptySmartSummary

\* A transcript of blank lines only has been analysed.
C8_Witness ==
    /\ sm_out.some
    /\ Len(sm_arg.lines) >= 2
    /\ IsBlankTranscript(sm_arg.lines)
    /\ sm_out = EmptySmartSummary

C10_LastLabel(lines, i) ==
    IF \E j \in 1..i : IsLabelled(lines[j])
    THEN CHOOSE j \in 1..i : /\ IsLabelled(lines[j])
                             /\ \A x \in (j + 1)..i : ~IsLabelled(lines[x])
    ELSE 0

\* The speaker line i belongs to; "" when it belongs to none.
C10_Owner(lines, i) ==
    IF C10_LastLabel(lines, i) = 0 THEN ""
    ELSE SpeakerName(lines[C10_LastLabel(lines, i)][1])

\* What the lines of speaker sp say, in order: a labelled line without its
\* label, an unlabelled line whole.
C10_Owned(lines, sp) ==
    LET own == SortedSeq({i \in 1..Len(lines) : C10_Owner(lines, i) = sp})
    IN Computed([n \in 1..Len(own) |->
                    IF IsLabelled(lines[own[n]]) THEN Tail(lines[own[n]])
                    ELSE lines[own[n]]])

C10_Example ==
    << <<"Speaker 1:", "hello", ".">>, <<"budget", ".">>, <<"Speaker 2:", "plan", ".">> >>

\* C10: each non-empty line without a label belongs to the speaker of the
\* most recent labelled line before it, and to no speaker when no labelled
\* line precedes it: the groups are those of the speakers that own a line,
\* each holding the sentences of the lines it owns.  For "Speaker 1: hello.",
\* "budget.", "Speaker 2: plan." there are exactly two groups, Speaker 1
\* with hello and budget, Speaker 2 with plan only.
C10_CarryForward ==
    sm_out.some =>
        LET lines == SelectNonEmpty(sm_arg.lines)
            owners == {C10_Owner(lines, i) : i \in 1..Len(lines)} \ {""}
        IN /\ {sm_out.speakers[g].k : g \in 1..Len(sm_out.speakers)} = owners
           /\ Len(sm_out.speakers) = Cardinality(owners)
           /\ \A g \in 1..Len(sm_out.speakers) :
                 sm_out.speakers[g].v = SpeakerCut(C10_Owned(lines, sm_out.speakers[g].k))
           /\ sm_arg.lines = C10_Example =>
                 sm_out.speakers =
                     << [k |-> "Speaker 1", v |-> << <<"hello">>, <<"budget">> >>],
                        [k |-> "Speaker 2", v |-> << <<"plan">> >>] >>

\* The three-line example has been analysed and gave two groups.
C10_Witness ==
    /\ sm_out.some
    /\ sm_arg.lines = C10_Example
    /\ Len(sm_out.speakers) = 2

\* The sentences of the transcript of the latest call.
ArgSentences == _split_sentences(sm_arg.lines)

Elements(list) == {list[i] : i \in 1..Len(list)}

\* s contains "we decided" or its Arabic counterpart, in any letter case.
C11_HasPhrase(s) == \E i \in 1..Len(s) : s[i] \in {"we decided", "WE DECIDED", "ar_qararna"}

\* s contains a phrase of the decision keyword list, in any letter case.
C11_HasDecisionKeyword(s) ==
    \E i \in 1..Len(s) : s[i] \in {"we decided", "WE DECIDED", "ar_qararna", "agreed"}

\* C11 as claimed: a sentence that contains "we decided" or its Arabic
\* counterpart in any letter case is an element of decisions, and a sentence
\* that contains neither is not.
C11_DecisionsByPhrase ==
    sm_out.some =>
        \A s \in Elements(ArgSentences) :
            C11_HasPhrase(s) <=> s \in Elements(sm_out.decisions)

\* C11 as amended: decisions is the first 12, in transcript order, of the
\* sentences that contain a phrase of the decision keyword list in any
\* letter case ("we decided" and its Arabic counterpart among them); a
\* sentence that contains no phrase of the list is not an element of it.
C11_DecisionsByKeyword ==
    sm_out.some =>
        /\ sm_out.decisions = FirstN(SelectSeq(ArgSentences, C11_HasDecisionKeyword), 12)
        /\ \A s \in Elements(ArgSentences) :
              ~C11_HasDecisionKeyword(s) => s \notin Elements(sm_out.decisions)

\* A transcript with a sentence in capitals and one with another keyword of
\* the list, both returned, and a sentence with no keyword, left out.
C11_Witness ==
    /\ sm_out.some
    /\ \E s \in Elements(sm_out.decisions) : \E i \in 1..Len(s) : s[i] = "WE DECIDED"
    /\ \E s \in Elements(sm_out.decisions) : ~C11_HasPhrase(s)
    /\ \E s \in Elements(ArgSentences) : s \notin Elements(sm_out.decisions)

----------------------------------------------------------------------------
(* Properties of the response parsing *)

\* here is json: {"summary":"x","topics":["a"]}
C12_ProseThenObject == <<"prose", "{", "sumS", "topA", "}">>

\* C12: a response of prose followed by one JSON object is not JSON as a
\* whole, the brace extraction hands that object to the second parse, and
\* the result has summary "x" and topics ["a"], not the extractive fallback.
C12_BraceExtraction ==
    (pc = "done" /\ out.some /\ out.s = C12_ProseThenObject) =>
        /\ ~json_loads(out.s).ok
        /\ _parse_json(out.s) = JDict(2, JStr(<<Lit("x")>>), JList(<<JStr(<<Lit("a")>>)>>))
        /\ result = SummaryResult(<<Lit("x")>>, << <<Lit("a")>> >>, <<>>, <<>>, <<>>)

\* Such a response was the final one of a call that returned.
C12_Witness ==
    /\ pc = "done"
    /\ out.some
    /\ out.s = C12_ProseThenObject
    /\ result.summary = <<Lit("x")>>
    /\ result.summary # _fallback_summary(prompt.text)

----------------------------------------------------------------------------
(* Transcripts without speakers *)

C13_NoLabelledLine(lines) == \A i \in 1..Len(lines) : ~IsLabelled(lines[i])

\* C13: when no line of the transcript matches a speaker label pattern,
\* build_smart_summary returns a SmartSummary with all seven fields, its
\* speakers the empty map, and its bullets still drawn from the sentences.
C13_NoSpeakersIsNormal ==
    (sm_out.some /\ C13_NoLabelledLine(sm_arg.lines)) =>
        /\ sm_out.speakers = <<>>
        /\ DOMAIN sm_out = DOMAIN EmptySmartSummary
        /\ sm_out.bullets # <<>> <=> ArgSentences # <<>>
        /\ Elements(sm_out.bullets) \subseteq Elements(ArgSentences)

\* A transcript with text, and with a label that has no utterance, but no
\* labelled line, has been analysed.
C13_Witness ==
    /\ sm_out.some
    /\ C13_NoLabelledLine(sm_arg.lines)
    /\ \E i \in 1..Len(sm_arg.lines) : sm_arg.lines[i] = <<"Speaker 1:">>
    /\ \E i \in 1..Len(sm_arg.lines) : sm_arg.lines[i] = <<"budget", ".">>
    /\ sm_out.speakers = <<>>
    /\ sm_out.bullets # <<>>

----------------------------------------------------------------------------
(* Transport failures and the order of the calls *)

\* The POST to /api/chat and the POST to /api/generate of the current
\* logical call both failed.
FailedOnBoth == chat_status \notin {"none", "ok"} /\ gen_status \notin {"none", "ok"}

C14_Aborted ==
    (chunked /\ idx > 0 /\ FailedOnBoth) =>
        /\ pc = "raised"
        /\ exc = CauseOf(gen_status)
        /\ result = NoResult
        /\ Len(calls) = idx
        /\ \A k \in 1..Len(calls) : calls[k].part = k /\ calls[k].text = chunks[k]
        /\ Len(chunk_summaries) = idx - 1

\* C14: in a multi-chunk run, when the call for chunk i has failed on both
\* protocols the run has raised: the calls made are those of chunks 1..i,
\* none for a later chunk or for the merge, no SummaryResult is returned,
\* and nothing more happens after the raise.
C14_ChunkFailureAborts ==
    /\ []C14_Aborted
    /\ [][pc # "raised"]_vars

\* The second of three chunks failed on both protocols.
C14_Witness ==
    /\ chunked
    /\ Len(chunks) = 3
    /\ idx = 2
    /\ FailedOnBoth
    /\ pc = "raised"
    /\ Len(chunk_summaries) = 1
    /\ result = NoResult

\* The requests of the current logical call, in every state.
C15_Requests ==
    /\ chat_posts \in 0..1
    /\ gen_posts \in 0..1
    /\ gen_posts = 1 => chat_posts = 1 /\ chat_status \notin {"none", "ok"}
    /\ pc = "generate" => chat_posts = 1 /\ chat_status \notin {"none", "ok"}
    /\ chat_status = "ok" => gen_posts = 0 /\ pc # "generate"
    /\ http_posts <= 2 * Len(calls)

\* One step within a logical call: a POST to /api/chat is the call's first
\* request, a POST to /api/generate follows a failed chat attempt, and every
\* request is one of the two.
C15_Step ==
    calls' = calls =>
        /\ chat_posts' # chat_posts =>
               chat_posts = 0 /\ gen_posts = 0 /\ chat_posts' = 1 /\ gen_posts' = 0
        /\ gen_posts' # gen_posts =>
               /\ gen_posts = 0 /\ gen_posts' = 1
               /\ chat_posts = 1 /\ chat_posts' = 1
               /\ chat_status \notin {"none", "ok"}
        /\ http_posts' - http_posts = (chat_posts' - chat_posts) + (gen_posts' - gen_posts)

\* C15: in every logical endpoint call the POST to /api/chat is the first
\* request, the POST to /api/generate is made at most once and only after
\* the chat attempt failed, never after a chat success (empty content
\* included), and a logical call makes at most 2 POSTs.
C15_ChatThenGenerateOnce ==
    /\ []C15_Requests
    /\ [][C15_Step]_vars

\* A chunked run has returned: its last call was answered by /api/chat with
\* empty content and no generate POST, an earlier call needed both POSTs.
C15_Witness ==
    /\ pc = "done"
    /\ chunked
    /\ chat_status = "ok"
    /\ reply = [url |-> "chat", s |-> <<>>]
    /\ gen_posts = 0
    /\ http_posts > Len(calls)

RECURSIVE C16_TotalLen(_)
C16_TotalLen(list) == IF list = <<>> THEN 0 ELSE StrLen(Head(list)) + C16_TotalLen(Tail(list))

\* The logical calls of a chunked run so far: a prefix of chunk 1, ..., chunk
\* N, merged summaries.
C16_Calls ==
    chunked =>
        LET N == Len(chunks) IN
        /\ Len(calls) <= N + 1
        /\ \A k \in 1..Len(calls) :
               k <= N => calls[k] = [text |-> chunks[k], part |-> k, compact |-> TRUE]
        /\ Len(calls) = N + 1 =>
               /\ Len(chunk_summaries) = N
               /\ calls[N + 1] = [text |-> Join(<<NL(2)>>, chunk_summaries),
                                  part |-> 0, compact |-> FALSE]
               /\ StrLen(calls[N + 1].text) =
                      C16_TotalLen(chunk_summaries) + (IF N = 0 THEN 0 ELSE 2 * (N - 1))
        /\ pc = "done" => Len(calls) = N + 1

\* A logical call starts when the run starts or the previous call has
\* returned, and is added at the end of the calls made.
C16_Step ==
    calls' # calls =>
        /\ pc \in {"idle", "ret"}
        /\ Len(calls') = Len(calls) + 1
        /\ SubSeq(calls', 1, Len(calls)) = calls
        /\ chunked' => chunks' # <<>> /\ (pc = "ret" => chunks' = chunks)

\* C16: for a transcript split into N chunks the logical calls are, in
\* order, one per chunk 1..N, each titled with its part number and each
\* returned before the next starts, then one call on the chunk summaries
\* joined by blank lines, which is not chunked again whatever its length:
\* N+1 logical calls in a run that returns.
C16_ChunkCallsThenOneMerge ==
    /\ []C16_Calls
    /\ [][C16_Step]_vars

\* A run of two or more chunks has returned after N+1 calls, the last one on
\* merged summaries longer than MAX_CHARS.
C16_Witness ==
    /\ pc = "done"
    /\ chunked
    /\ Len(chunks) >= 2
    /\ Len(calls) = Len(chunks) + 1
    /\ StrLen(calls[Len(calls)].text) > MAX_CHARS
    /\ result # NoResult

----------------------------------------------------------------------------
(* The extractive fallback *)

\* The sentences of a text: it is cut after each '.', '!' or '?' that white
\* space follows; the parts are stripped and the empty ones dropped.
C17_Sentences(text) == SelectNonEmpty(StripEach(SplitAfterPunct(Strip(text), <<>>)))

\* C17: when parsing the final response yields no structured result, the
\* returned SummaryResult has empty topics, decisions, tasks and speakers
\* and its summary is the first 5 sentences of the text sent, joined by
\* single spaces and cut to 1200 characters.
C17_FallbackResult ==
    (pc = "done" /\ out.some /\ ~Truthy(_parse_json(out.s))) =>
        /\ result = SummaryResult(
                        Prefix(Join(<<SP(1)>>, FirstN(C17_Sentences(prompt.text), 5)), 1200),
                        <<>>, <<>>, <<>>, <<>>)
        /\ StrLen(result.summary) <= 1200

\* The fallback was used on a text of more than 5 sentences whose first 5
\* are shorter than 1200 characters together.
C17_Witness ==
    /\ pc = "done"
    /\ out.some
    /\ out.s = <<"prose">>
    /\ Len(C17_Sentences(prompt.text)) > 5
    /\ StrLen(result.summary) = 5 * 101 + 4
    /\ \A i \in 1..Len(result.summary) : result.summary[i] \in {W(100), P, SP(1)}
    /\ result.topics = <<>>

----------------------------------------------------------------------------
(* The brace extraction *)

\* The first brace-delimited substring: from the first "{" to the first "}"
\* after it.
C18_FirstBraceSpan(toks) ==
    LET opens == {i \in 1..Len(toks) : toks[i] = "{"}
        first == CHOOSE i \in opens : \A j \in opens : i <= j
        closes == {i \in 1..Len(toks) : toks[i] = "}" /\ i > first}
        close == CHOOSE i \in closes : \A j \in closes : i <= j
    IN SubSeq(toks, first, close)

\* C18: when the whole response is no JSON, the substring given to the second
\* parse is the first brace-delimited substring of the response, also when
\* the response holds several objects or a further "}" after the first one.
C18_FirstBraceDelimited ==
    (out.some /\ ~json_loads(out.s).ok /\ BraceMatch(out.s).found) =>
        BraceMatch(out.s).blob = C18_FirstBraceSpan(out.s)

----------------------------------------------------------------------------
(* Topic groups *)

\* The fixed topic of a sentence by the order of the table: "goal" is a hint
\* of the first topic, "plan" of the third; "" when it holds no hint.
C19_FirstFixed(s) ==
    IF \E i \in 1..Len(s) : s[i] = "goal" THEN "intro_context"
    ELSE IF \E i \in 1..Len(s) : s[i] = "plan" THEN "work_plan"
    ELSE ""

C19_GroupOf(topic) ==
    LET hit == {i \in 1..Len(sm_out.topics) : sm_out.topics[i].k = FixedTopic(topic)}
    IN IF hit = {} THEN <<>> ELSE sm_out.topics[CHOOSE i \in hit : TRUE].v

\* C19: a sentence with hints of several fixed topics is placed in the one
\* that comes first in the table and in no other group, and a sentence with
\* a hint of a fixed topic is in no dynamic group and not in the catch-all.
C19_FirstMatchWins ==
    sm_out.some =>
        /\ \A i \in 1..Len(sm_out.topics) :
               \A s \in Elements(sm_out.topics[i].v) :
                   C19_FirstFixed(s) # "" =>
                       sm_out.topics[i].k = FixedTopic(C19_FirstFixed(s))
        /\ \A topic \in {"intro_context", "work_plan"} :
               LET InTopic(s) == C19_FirstFixed(s) = topic
               IN C19_GroupOf(topic) = FirstN(SelectSeq(ArgSentences, InTopic), 6)

\* A sentence with "plan" before "goal" is in the group of the first topic,
\* next to a group of the third topic and a dynamic group.
C19_Witness ==
    /\ sm_out.some
    /\ <<"plan", "goal">> \in Elements(C19_GroupOf("intro_context"))
    /\ C19_GroupOf("work_plan") = << <<"plan">> >>
    /\ \E i \in 1..Len(sm_out.topics) :
           sm_out.topics[i].k.kind = "dynamic" /\ sm_out.topics[i].v = << <<"budget">> >>

\* The groups of the result that are no fixed topic.
C20_Kept ==
    LET IsDyn(g) == g.k.kind \in {"dynamic", "other"}
    IN SelectSeq(sm_out.topics, IsDyn)

\* The dynamic buckets of the transcript, in the order they were formed; none
\* is formed when the unassigned sentences yield no keyword (line 121).
C20_Buckets ==
    LET other == ByHints(ArgSentences, tables).other
        kw == _top_keywords(other, 8, tables)
    IN IF kw = <<>> THEN <<>> ELSE ByKeywords(other, kw)

C21_Unassigned == ByHints(ArgSentences, tables).other

\* The unassigned sentences that contain none of the top-8 keywords of the
\* unassigned bucket.
C21_NoKeyword ==
    LET kw == _top_keywords(C21_Unassigned, 8, tables)
        Without(s) == FirstKeyword(s, kw) = 0
    IN SelectSeq(C21_Unassigned, Without)

\* C21: for a non-empty unassigned bucket, the unassigned sentences that
\* contain none of its top-8 keywords are in the catch-all bucket when the 4
\* largest are selected and none is discarded before; so where at most 4
\* buckets exist the catch-all group of the result holds them (its first 6).
C21_CatchAllKeepsUnmatched ==
    (sm_out.some /\ C21_Unassigned # <<>> /\ Len(C20_Buckets) <= 4
        /\ C21_NoKeyword # <<>>) =>
        \E i \in 1..Len(sm_out.topics) :
            /\ sm_out.topics[i].k = OtherTopics
            /\ sm_out.topics[i].v = FirstN(C21_NoKeyword, 6)

----------------------------------------------------------------------------
(* Highlights *)

\* The top-8 global keywords of the analysed transcript.
C22_Top8 == Elements(FirstN(sm_out.keywords, 8))

\* The number of occurrences of the keyword w in the sentence s.
C22_Occurrences(w, s) == Cardinality({i \in 1..Len(s) : w \in WordInfo(s[i]).subs})

RECURSIVE C22_Sum(_, _)
C22_Sum(S, s) ==
    IF S = {} THEN 0
    ELSE LET w == CHOOSE w \in S : TRUE
         IN C22_Occurrences(w, s) + C22_Sum(S \ {w}, s)

C22_Bonus(s) ==
    (IF HasKeyword(s, tables.DECISION_KWS) THEN 3 ELSE 0)
    + (IF HasKeyword(s, tables.TASK_KWS) THEN 2 ELSE 0)
    - (SentLen(s) \div 180)

\* C22 as stated: the score is 2 times the number of occurrences of the
\* top-8 global keywords in the sentence, plus 3 for a decision keyword,
\* plus 2 for a task keyword, minus floor(length / 180).
C22_ScorePerOccurrence ==
    sm_out.some =>
        \A i \in 1..Len(sm_scored) :
            sm_scored[i].key = 2 * C22_Sum(C22_Top8, sm_scored[i].val) + C22_Bonus(sm_scored[i].val)

\* C22: the score is 2 times the number of top-8 global keywords the
\* sentence contains, each counted once, plus 3 for a decision keyword, plus
\* 2 for a task keyword, minus floor(length / 180); scored has one pair per
\* sentence, in transcript order.
C22_ScorePerKeyword ==
    sm_out.some =>
        /\ Len(sm_scored) = Len(ArgSentences)
        /\ \A i \in 1..Len(sm_scored) :
               /\ sm_scored[i].val = ArgSentences[i]
               /\ sm_scored[i].key =
                      2 * Cardinality({w \in C22_Top8 : C22_Occurrences(w, sm_scored[i].val) > 0})
                      + C22_Bonus(sm_scored[i].val)

\* A sentence with the keyword "budget" twice scored 2, next to a sentence
\* of 187 characters with a keyword and a task keyword scored 2 + 2 + 2 - 1.
C22_Witness ==
    /\ sm_out.some
    /\ sm_scored = << [key |-> 2, val |-> <<"budget", "budget">>],
                      [key |-> 5, val |-> <<"long", "please">>] >>

\* The rank of the i-th sentence: the number of sentences with a higher
\* score, or with the same score and earlier in the transcript.
C23_Rank(i) ==
    Cardinality({j \in 1..Len(sm_scored) :
                    \/ sm_scored[j].key > sm_scored[i].key
                    \/ sm_scored[j].key = sm_scored[i].key /\ j < i})

\* The 10 best-scored sentences, by position.
C23_Top == {i \in 1..Len(sm_scored) : C23_Rank(i) < 10}

\* Those of them whose first 60 characters no better-ranked one of them has.
C23_Kept ==
    {i \in C23_Top :
        \A j \in C23_Top :
            C23_Rank(j) < C23_Rank(i) =>
                SentPrefix(sm_scored[j].val, 60) # SentPrefix(sm_scored[i].val, 60)}

\* C23: bullets are the 10 best-scored sentences, by non-increasing score
\* and in transcript order among equal scores, without those whose first 60
\* characters equal those of an earlier one of the 10; a dropped duplicate
\* is not replaced by a sentence ranked lower.
C23_TopTenThenDedup ==
    sm_out.some =>
        /\ Len(sm_out.bullets) = Cardinality(C23_Kept)
        /\ \A i \in C23_Kept :
               sm_out.bullets[1 + Cardinality({j \in C23_Kept : C23_Rank(j) < C23_Rank(i)})]
                   = sm_scored[i].val

\* Of 18 sentences the 10 best held two pairs of equal sentences: 8 bullets.
C23_Witness ==
    /\ sm_out.some
    /\ Len(sm_scored) = 18
    /\ Cardinality(C23_Top) = 10
    /\ Len(sm_out.bullets) = 8

----------------------------------------------------------------------------
(* The base URL *)

\* The number of "/api" segments of a URL.
C24_ApiSegments(u) == Cardinality({i \in 1..(Len(u) - 1) : u[i] = "/" /\ u[i + 1] = "api"})

\* C24: for every base URL given to the constructor the stored URL ends
\* neither with "/" nor with "/api", normalising it again leaves it as it is,
\* and the requests go to <stored>/api/chat and <stored>/api/generate with a
\* single "/api" segment.
C24_BaseUrlNormalised ==
    url_pc = "ready" =>
        /\ base_url # <<>> => base_url[Len(base_url)] # "/"
        /\ ~EndsWithApi(base_url)
        /\ url_prev # <<>> => base_url = url_prev
        /\ \A u \in url_sent :
               /\ u \in {ChatUrl(base_url), GenerateUrl(base_url)}
               /\ C24_ApiSegments(u) = 1

----------------------------------------------------------------------------
(* The tokens of the chunks *)

\* The tokens a chunk was joined from: its parts between the single blanks.
RECURSIVE C25_ChunkTokens(_, _)
C25_ChunkTokens(chunk, run) ==
    IF chunk = <<>> THEN (IF run = <<>> THEN <<>> ELSE <<run>>)
    ELSE IF Head(chunk) = SP(1)
    THEN (IF run = <<>> THEN <<>> ELSE <<run>>) \o C25_ChunkTokens(Tail(chunk), <<>>)
    ELSE C25_ChunkTokens(Tail(chunk), Append(run, Head(chunk)))

\* The tokens of all chunks returned, in order.
C25_Returned == Concat([i \in 1..Len(ck_parts) |-> C25_ChunkTokens(ck_parts[i], <<>>)])

----------------------------------------------------------------------------
(* Properties of TranscriptionService *)

C26_Executed == {ts_jobs[i] : i \in 1..Len(ts_jobs)}
C26_Pending == {ts_events[i] : i \in 1..Len(ts_events)}

\* C26: a request emitted while a job is running (_busy was True at the
\* emit) is ignored: once delivered it has been answered with 'Busy: job
\* ignored.', and no job is ever executed for it, whichever handler emitted
\* it (_transcribe_selected_file or _on_record_saved).
C26_BusyRequestIgnored ==
    \A r \in 1..Len(ts_requests) :
        ts_requests[r].busy =>
            /\ r \notin C26_Executed
            /\ r \notin C26_Pending => r \in ts_ignored

C27_Count(sig) == Cardinality({i \in 1..Len(ts_emitted) : ts_emitted[i] = sig})

\* C27: the signals of an accepted job start with busy_changed(True), end
\* with busy_changed(False) once the job is over, and hold exactly one of
\* result and error in between; progress(100) and status('Done') occur only
\* in a job that emits result; and _busy is False whenever start_job is not
\* executing a job.
C27_SignalOrder ==
    /\ (ts_pc = "idle" \/ ts_job = 0) => ~ts_busy
    /\ ts_emitted # <<>> =>
           /\ ts_emitted[1] = "busy_changed(True)"
           /\ C27_Count("busy_changed(True)") = 1
           /\ C27_Count("result") + C27_Count("error") <= 1
           /\ \A i \in 1..Len(ts_emitted) :
                  /\ ts_emitted[i] = "busy_changed(False)" => i = Len(ts_emitted) /\ ts_pc = "idle"
                  /\ ts_emitted[i] \in {"progress(100)", "status('Done')"} =>
                         /\ C27_Count("result") = 1
                         /\ C27_Count("error") = 0
           /\ ts_pc = "idle" =>
                  /\ ts_emitted[Len(ts_emitted)] = "busy_changed(False)"
                  /\ C27_Count("busy_changed(False)") = 1
                  /\ C27_Count("result") + C27_Count("error") = 1
                  /\ C27_Count("result") = 1 =>
                         C27_Count("progress(100)") = 1 /\ C27_Count("status('Done')") = 1

\* A second job that failed while transcribing, after the progress signals
\* of the conversion, and is over.
C27_Witness ==
    /\ ts_pc = "idle"
    /\ ~ts_busy
    /\ Len(ts_jobs) = 2
    /\ C27_Count("error") = 1
    /\ C27_Count("progress(95)") = 2
    /\ ts_emitted[Len(ts_emitted)] = "busy_changed(False)"

----------------------------------------------------------------------------
(* Properties of RecordingService *)

C28_Emitted(sigs) == \E i \in 1..Len(rec_emitted) : rec_emitted[i] \in sigs
C28_StateSavedError ==
    {"state('Recording')", "state('Paused')", "state('Idle')", "state('Error')", "saved", "error"}

\* start_recording found a stream: stream, frames, pause flag and the number
\* of streams opened are what they were.
C28_StartKeeps ==
    (rec_last.op = "start_recording" /\ rec_last.stream # 0) =>
        /\ rec_stream = rec_last.stream
        /\ rec_frames = rec_last.frames
        /\ rec_paused = rec_last.paused
        /\ rec_opened = rec_last.opened

\* stop_recording and toggle_pause found no stream: no state, saved or error
\* signal.
C28_NoStreamSilent ==
    (rec_last.op \in {"stop_recording", "toggle_pause"} /\ rec_last.stream = 0) =>
        ~C28_Emitted(C28_StateSavedError)

\* stop_recording found a stream: it is gone and the pause flag is False.
C28_StopResets ==
    (rec_last.op = "stop_recording" /\ rec_last.stream # 0) =>
        rec_stream = 0 /\ ~rec_paused

\* C28: an operation of RecordingService invoked in the wrong state changes
\* nothing (start_recording with a stream keeps stream, frames and pause
\* flag and opens no stream; stop_recording and toggle_pause without a
\* stream emit no state, saved or error signal), and stop_recording on a
\* stream leaves _stream None and _paused False.
C28_WrongStateIsNoOp == C28_StartKeeps /\ C28_NoStreamSilent /\ C28_StopResets

----------------------------------------------------------------------------
(* Properties of the topics map and of the bullets *)

C29_Sentences == _split_sentences(sm_arg.lines)
C29_Texts == {C29_Sentences[i] : i \in 1..Len(C29_Sentences)}
C29_InGroup(g, s) == {j \in 1..Len(sm_out.topics[g].v) : sm_out.topics[g].v[j] = s}
C29_GroupsOf(s) == {g \in 1..Len(sm_out.topics) : C29_InGroup(g, s) # {}}
C29_Positions(s) == {i \in 1..Len(C29_Sentences) : C29_Sentences[i] = s}

\* C29: in the topics map every group is non-empty and holds transcript
\* sentences only, and every sentence, counted by position, is in at most
\* one group: its text occurs in at most one group, and there no more often
\* than in the transcript.
C29_GroupsDisjoint ==
    (sm_arg.some /\ sm_out.some) =>
        /\ \A g \in 1..Len(sm_out.topics) :
               /\ sm_out.topics[g].v # <<>>
               /\ \A j \in 1..Len(sm_out.topics[g].v) : sm_out.topics[g].v[j] \in C29_Texts
               /\ \A h \in 1..Len(sm_out.topics) : sm_out.topics[h].k = sm_out.topics[g].k => h = g
        /\ \A s \in C29_Texts :
               /\ Cardinality(C29_GroupsOf(s)) <= 1
               /\ \A g \in C29_GroupsOf(s) :
                      Cardinality(C29_InGroup(g, s)) <= Cardinality(C29_Positions(s))

\* A repeated sentence in a group, and a sentence the 6-sentence trim cut.
C29_Witness ==
    /\ sm_arg.some /\ sm_out.some
    /\ \E s \in C29_Texts : C29_GroupsOf(s) = {}
    /\ \E s \in C29_Texts : \E g \in C29_GroupsOf(s) : Cardinality(C29_InGroup(g, s)) = 2

\* C30: every bullet is a sentence of the transcript, and no two bullets have
\* the same first 60 characters.
C30_BulletsDistinct ==
    (sm_arg.some /\ sm_out.some) =>
        /\ \A i \in 1..Len(sm_out.bullets) : sm_out.bullets[i] \in C29_Texts
        /\ \A i, j \in 1..Len(sm_out.bullets) :
               SentPrefix(sm_out.bullets[i], 60) = SentPrefix(sm_out.bullets[j], 60) => i = j

\* Two different sentences with the same first 60 characters, one of them
\* among the bullets.
C30_Witness ==
    /\ sm_arg.some /\ sm_out.some
    /\ Len(sm_out.bullets) >= 1
    /\ \E s, t \in C29_Texts :
           /\ s # t
           /\ SentPrefix(s, 60) = SentPrefix(t, 60)
           /\ \E i \in 1..Len(sm_out.bullets) : sm_out.bullets[i] = s
           /\ \A i \in 1..Len(sm_out.bullets) : sm_out.bullets[i] # t

============================================================================
